---- MODULE Spec2Model ----
(***************************************************************************)
(* The server-side HTTP/2 connection engine of lib/http2/connection.c as a *)
(* state machine.  The connection object is one record; every C function   *)
(* is an operator from a connection record to a connection record, so that *)
(* a handler is the composition of the calls it makes.  An action of the   *)
(* state machine is one callback of the event loop (on_read, the timers,   *)
(* on_write_complete, the application's calls).                             *)
(***************************************************************************)
EXTENDS Integers, Sequences, FiniteSets, TLC

(* ------------------------------ bounds --------------------------------- *)
\* stream ids range over 1..MaxStreamId (odd: pull, even: push)
MaxStreamId == 5
\* http2.max_concurrent_requests_per_connection of the configuration
MaxConcurrentRequests == 1
\* http2.max_concurrent_streaming_requests_per_connection of the configuration
MaxConcurrentStreaming == 1
\* http2.graceful_shutdown_timeout when it is enabled (0 disables the last stage)
GracefulTimeout == 1
\* H2O_HTTP2_DEFAULT_OUTBUF_SOFT_MAX_SIZE, counted in frames instead of bytes
SoftMaxFrames == 2
\* the number of input units (frames, halves of the preface) one read delivers
MaxUnitsPerRead == 3
\* the number of input units the socket buffers unparsed
MaxInputBuffer == 3
\* the number of input units the client sends in all
MaxClientUnits == 4
\* the same where only requests are sent
MaxRequestUnits == 7
\* H2O_HTTP2_SETTINGS_HOST_STREAM_INITIAL_WINDOW_SIZE (65535 bytes), in units of a DATA payload
StreamInitialWindow == 2
\* http2.active_stream_window_size of the configuration, in the same units
ActiveStreamWindow == 4
\* H2O_HTTP2_SETTINGS_HOST_CONNECTION_WINDOW_SIZE, in the same units
ConnectionWindow == 4
\* max_request_entity_size of the configuration, in the same units
MaxRequestEntitySize == 1
\* http2.max_streams_for_priority of the configuration
MaxStreamsForPriority == 1
\* the units the client sends in the runs that follow the body of one request
MaxBodyUnits == 6
\* the units the client sends in the runs with header blocks that are split
MaxHeaderUnits == 6
MaxFlowUnits == 6
\* the units the client sends in the runs with padded DATA frames
MaxWindowUnits == 6

\* the units the client sends in the runs with the idle timer
MaxIdleUnits == 4

\* the units the client sends in the runs with a GOAWAY of the peer
MaxGoawayUnits == 5

\* the same where responses are queued, replayed and flow-controlled
MaxLinkUnits == 5
\* the units the client sends in the runs with PRIORITY frames
MaxPriorityUnits == 6
\* the slots of _recently_closed_streams (ten in the program)
HTTP2_CLOSED_STREAM_PRIORITIES == 2

(* --------------------------- program constants ------------------------- *)
H2O_HTTP2_CONN_STATE == [OPEN |-> 0, HALF_CLOSED |-> 1, IS_CLOSING |-> 2]

H2O_HTTP2_STREAM_STATE ==
    [IDLE |-> 0, RECV_HEADERS |-> 1, RECV_BODY |-> 2, REQ_PENDING |-> 3, SEND_HEADERS |-> 4,
     SEND_BODY |-> 5, SEND_BODY_IS_FINAL |-> 6, END_STREAM |-> 7]

H2O_HTTP2_REQ_BODY ==
    [NONE |-> 0, OPEN_BEFORE_FIRST_FRAME |-> 1, OPEN |-> 2, CLOSE_QUEUED |-> 3, CLOSE_DELIVERED |-> 4]

H2O_HTTP2_ERROR ==
    [NONE |-> 0, PROTOCOL |-> -1, INTERNAL |-> -2, FLOW_CONTROL |-> -3, STREAM_CLOSED |-> -5,
     FRAME_SIZE |-> -6, REFUSED_STREAM |-> -7, COMPRESSION |-> -9, ENHANCE_YOUR_CALM |-> -11,
     INVALID_HEADER_CHAR |-> -254, INCOMPLETE |-> -255, PROTOCOL_CLOSE_IMMEDIATELY |-> -256]

\* the weight of h2o_http2_default_priority (no dependency, not exclusive)
h2o_http2_default_priority == 16
INT32_MAX == 2147483647
H2O_HTTP2_SETTINGS_HOST_MAX_CONCURRENT_STREAMS == 100
SIZE_MAX == -1

CS == H2O_HTTP2_CONN_STATE
SS == H2O_HTTP2_STREAM_STATE
RB == H2O_HTTP2_REQ_BODY
ERR == H2O_HTTP2_ERROR

Ids == 1..MaxStreamId
h2o_http2_stream_is_push(stream_id) == stream_id % 2 = 0
PullIds == {i \in Ids : ~h2o_http2_stream_is_push(i)}

(* ------------------------------ frames --------------------------------- *)
\* an output frame as it sits in _write.buf
OutFrame(t, id, code, dbg) == [t |-> t, id |-> id, code |-> code, dbg |-> dbg]
\* the bytes of SERVER_PREFACE: SETTINGS(max_concurrent_streams=100), WINDOW_UPDATE(0, target - 65535)
SERVER_PREFACE == OutFrame("SERVER_PREFACE", 0, 0, "")

\* an input unit: a frame, or one half (12 bytes) of what should be the client preface
\* t: the frame type; id: the stream id; es, eh: END_STREAM, END_HEADERS; m: what the header block
\* decodes to (HEADERS), or "HUGE" for a CONTINUATION that exceeds H2O_MAX_REQLEN; n: the
\* content-length (HEADERS), the payload length (DATA) or the weight (PRIORITY); a DATA frame with
\* m = "PADDED" carries one unit of padding besides its payload
InUnit(t, id, es, eh, m, n) == [t |-> t, id |-> id, es |-> es, eh |-> eh, m |-> m, n |-> n]
CONNECTION_PREFACE ==
    <<InUnit("PREFACE_A", 0, FALSE, FALSE, "", 0), InUnit("PREFACE_B", 0, FALSE, FALSE, "", 0)>>

(* ------------------------- record helpers ------------------------------ *)
NewStream ==
    [state |-> SS.IDLE, body |-> RB.NONE, buf |-> FALSE, bufsize |-> 0, proceed_req |-> FALSE,
     is_tunnel_req |-> FALSE, streamed |-> FALSE, blocked_by_server |-> FALSE,
     process_called |-> FALSE, write_req |-> FALSE, entity |-> FALSE, slot |-> "priority",
     entity_len |-> 0, link |-> "none", content_length |-> SIZE_MAX, received |-> 0, pending_data |-> FALSE,
     sched_open |-> FALSE, promise_sent |-> FALSE, output_window |-> StreamInitialWindow, input_window |-> StreamInitialWindow,
     bytes_unnotified |-> 0, sending |-> FALSE, weight |-> h2o_http2_default_priority]

Has(c, id) == id \in DOMAIN c.streams

\* the events of the running handler, up to a failed assertion
Ev(c, e) == IF c.aborted # "" THEN c ELSE [c EXCEPT !.ev = Append(@, e)]

\* a failed assert() or h2o_fatal(): the process aborts at the first one
Abort(c, name) == IF c.aborted = "" THEN [c EXCEPT !.aborted = name] ELSE c

\* a value under a name: Let([x \in {v} |-> e]) is e with x standing for v, v being computed once
Let(f) == f[CHOOSE x \in DOMAIN f : TRUE]

SeqWithout(s, x) == SelectSeq(s, LAMBDA y : y # x)

h2o_linklist_is_linked(c, id) == c.streams[id].link # "none"

h2o_linklist_unlink(c, id) ==
    [c EXCEPT !.pending = SeqWithout(@, id), !.to_proceed = SeqWithout(@, id),
              !.early = SeqWithout(@, id), !.streams[id].link = "none"]

\* h2o_linklist_insert(&conn-><list>, &stream->_link): appended before the anchor, i.e. at the tail
h2o_linklist_insert(c, list, id) ==
    IF h2o_linklist_is_linked(c, id) THEN Abort(c, "h2o_linklist_insert: !is_linked(node)")
    ELSE CASE list = "pending" -> [c EXCEPT !.pending = Append(@, id), !.streams[id].link = list]
           [] list = "proceed" -> [c EXCEPT !.to_proceed = Append(@, id), !.streams[id].link = list]
           [] OTHER -> [c EXCEPT !.early = Append(@, id), !.streams[id].link = list]

(* ------------------- writing: lines 434-451, 1367-1382 ------------------ *)
\* h2o_socket_is_writing: a write callback is registered (a write or a notify_write is outstanding)
h2o_socket_is_writing(c) == c.in_flight # 0 \/ c.notify

\* a variant that links the write timer whether or not the socket is writing
request_gathered_write_while_writing(c) ==
    IF ~(c.state < CS.IS_CLOSING) THEN Abort(c, "request_gathered_write: state < IS_CLOSING")
    ELSE [c EXCEPT !.wtimer = TRUE]

request_gathered_write(c) ==
    IF ~(c.state < CS.IS_CLOSING) THEN Abort(c, "request_gathered_write: state < IS_CLOSING")
    ELSE IF ~h2o_socket_is_writing(c) /\ ~c.wtimer THEN [c EXCEPT !.wtimer = TRUE]
    ELSE c

\* buffer sizes are counted in frames; the program compares them with zero and with the soft
\* maximum only, so sizes above the soft maximum are not told apart
Size(n) == IF n > SoftMaxFrames THEN SoftMaxFrames ELSE n

bytes_in_buf(c) == Size(c.wbuf + c.in_flight)

h2o_http2_conn_request_write(c) ==
    IF c.state = CS.IS_CLOSING THEN c
    ELSE request_gathered_write(
             IF c.reading /\ bytes_in_buf(c) >= SoftMaxFrames THEN [c EXCEPT !.reading = FALSE] ELSE c)

\* h2o_http2_encode_*_frame(&conn->_write.buf, ...)
\* the program only looks at the size of the buffer: the model keeps the size and whether a GOAWAY
\* is in the buffer, and records the frame itself as an event of the running handler
Encode(c, f) ==
    Ev([c EXCEPT !.wbuf = Size(@ + 1), !.wbuf_goaway = @ \/ f.t = "GOAWAY"], <<"encode", f>>)

stream_send_error(c, stream_id, errnum) ==
    IF stream_id = 0 THEN Abort(c, "stream_send_error: stream_id != 0")
    ELSE IF ~(c.state < CS.IS_CLOSING) THEN Abort(c, "stream_send_error: state < IS_CLOSING")
    ELSE h2o_http2_conn_request_write(Encode(c, OutFrame("RST_STREAM", stream_id, -errnum, "")))

(* --------------------------- idle timer: 147-168 ------------------------ *)
\* a variant that does not look at the TLS early-data state of the socket
update_idle_timeout_after_handshake(c) ==
    IF c.in_flight # 0
    THEN IF c.itimer THEN c ELSE Abort(c, "update_idle_timeout: h2o_timer_is_linked(_timeout_entry)")
    ELSE IF c.blocked_by_server # 0 THEN [c EXCEPT !.itimer = FALSE]
    ELSE [c EXCEPT !.itimer = TRUE]

update_idle_timeout(c) ==
    IF c.in_flight # 0
    THEN IF c.itimer THEN c ELSE Abort(c, "update_idle_timeout: h2o_timer_is_linked(_timeout_entry)")
    ELSE IF c.early_data THEN [c EXCEPT !.itimer = TRUE]
    ELSE IF c.blocked_by_server # 0 THEN [c EXCEPT !.itimer = FALSE]
    ELSE [c EXCEPT !.itimer = TRUE]

(* ------------------ stream bookkeeping (http2_internal.h) --------------- *)
h2o_http2_stream_set_blocked_by_server(c, id, on) ==
    IF on
    THEN IF c.streams[id].blocked_by_server THEN Abort(c, "set_blocked_by_server: !blocked_by_server")
         ELSE [c EXCEPT !.streams[id].blocked_by_server = TRUE, !.blocked_by_server = @ + 1]
    ELSE IF ~c.streams[id].blocked_by_server THEN Abort(c, "set_blocked_by_server: blocked_by_server")
         ELSE [c EXCEPT !.streams[id].blocked_by_server = FALSE, !.blocked_by_server = @ - 1]

\* h2o_http2_stream_update_open_slot: move the stream's "open" count to another slot
h2o_http2_stream_update_open_slot(c, id, slot) ==
    LET old == c.streams[id].slot
        c1 == [c EXCEPT !.ns[old].open = @ - 1]
    IN [c1 EXCEPT !.ns[slot].open = @ + 1, !.streams[id].slot = slot]

h2o_http2_stream_set_state(c, id, new_state) ==
    LET s == c.streams[id]
        slot == s.slot
    IN CASE new_state = SS.RECV_HEADERS ->
              IF s.state # SS.IDLE THEN Abort(c, "set_state(RECV_HEADERS): state == IDLE")
              ELSE [h2o_http2_stream_update_open_slot(c, id, IF h2o_http2_stream_is_push(id) THEN "push" ELSE "pull")
                      EXCEPT !.streams[id].state = new_state]
         [] new_state \in {SS.RECV_BODY, SS.REQ_PENDING} -> [c EXCEPT !.streams[id].state = new_state]
         [] new_state = SS.SEND_HEADERS ->
              IF s.state # SS.REQ_PENDING THEN Abort(c, "set_state(SEND_HEADERS): state == REQ_PENDING")
              ELSE IF slot = "none" THEN Abort(c, "set_state(SEND_HEADERS): _num_streams_slot == NULL")
              ELSE [c EXCEPT !.ns[slot].half_closed = @ + 1, !.streams[id].state = new_state]
         [] new_state = SS.SEND_BODY ->
              IF slot = "none" THEN Abort(c, "set_state(SEND_BODY): _num_streams_slot == NULL")
              ELSE [c EXCEPT !.ns[slot].send_body = @ + 1, !.streams[id].state = new_state]
         [] new_state = SS.SEND_BODY_IS_FINAL ->
              IF s.state # SS.SEND_BODY THEN Abort(c, "set_state(SEND_BODY_IS_FINAL): state == SEND_BODY")
              ELSE [c EXCEPT !.streams[id].state = new_state]
         [] new_state = SS.END_STREAM ->
              IF s.state = SS.END_STREAM THEN Abort(c, "set_state(END_STREAM): FIXME")
              ELSE Let([c1 \in {CASE s.state = SS.SEND_HEADERS -> [c EXCEPT !.ns[slot].half_closed = @ - 1]
                               [] s.state \in {SS.SEND_BODY, SS.SEND_BODY_IS_FINAL} ->
                                    [c EXCEPT !.ns[slot].half_closed = @ - 1, !.ns[slot].send_body = @ - 1]
                               [] OTHER -> c} |->
                       Let([c2 \in {[c1 EXCEPT !.ns[slot].open = @ - 1, !.streams[id].state = new_state,
                                        !.streams[id].slot = "none"]} |->
                   IF c2.streams[id].blocked_by_server
                      THEN h2o_http2_stream_set_blocked_by_server(c2, id, FALSE) ELSE c2])])
         [] OTHER -> Abort(c, "set_state(IDLE): FIXME")

\* h2o_http2_stream_open: allocate, register in the map, count as a priority-only stream
h2o_http2_stream_open(c, id) ==
    [c EXCEPT !.streams = [i \in DOMAIN c.streams \cup {id} |->
                              IF i = id THEN [NewStream EXCEPT !.output_window = c.peer_initial_window]
                              ELSE c.streams[i]],
              !.ns["priority"].open = @ + 1]

\* h2o_http2_scheduler_open of scheduler.c: the node of the stream becomes a child of parent (a
\* stream id, 0 for the root) with the weight given; if exclusive, the children parent had become
\* children of the node.  conn.node maps the stream id of every open node, of a stream of the map
\* or of a slot of the recently-closed ring, to its parent and weight
h2o_http2_scheduler_open(c, id, parent, weight, exclusive) ==
    [c EXCEPT !.streams[id].sched_open = TRUE,
              !.node = [n \in DOMAIN c.node \cup {id} |->
                           IF n = id THEN [parent |-> parent, weight |-> weight]
                           ELSE IF exclusive /\ c.node[n].parent = parent THEN [c.node[n] EXCEPT !.parent = id]
                           ELSE c.node[n]]]

\* the event of a stream being prepared: <<"prepare", id, max_open of its kind before, whether the
\* id had been prepared before>>; the ids prepared so far are kept in the ghost field prepared
Prepared(c, id) ==
    Ev([c EXCEPT !.prepared = @ \cup {id}],
       <<"prepare", id, IF h2o_http2_stream_is_push(id) THEN c.push_max_open ELSE c.pull_max_open,
         id \in c.prepared>>)

h2o_http2_stream_prepare_for_request(c, id) ==
    IF c.state = CS.IS_CLOSING THEN Abort(c, "prepare_for_request: state != IS_CLOSING")
    ELSE IF ~c.streams[id].sched_open THEN Abort(c, "prepare_for_request: scheduler_is_open")
    ELSE IF h2o_http2_stream_is_push(id)
         THEN IF ~(c.push_max_open < id) THEN Abort(c, "prepare_for_request: push max_open < stream_id")
              ELSE h2o_http2_stream_set_state([Prepared(c, id) EXCEPT !.push_max_open = id], id,
                                              SS.RECV_HEADERS)
         ELSE IF c.state = CS.OPEN
              THEN IF ~(c.pull_max_open < id) THEN Abort(c, "prepare_for_request: pull max_open < stream_id")
                   ELSE h2o_http2_stream_set_state([Prepared(c, id) EXCEPT !.pull_max_open = id], id,
                                                   SS.RECV_HEADERS)
              ELSE h2o_http2_stream_set_state(Prepared(c, id), id, SS.RECV_HEADERS)

(* ------------------------ input windows: 738-753 ------------------------ *)
\* a variant that sends the frame and leaves the window as it is
send_window_update_unaccounted(c, stream_id, delta) ==
    h2o_http2_conn_request_write(Encode(c, OutFrame("WINDOW_UPDATE", stream_id, delta, "")))

send_window_update(c, stream_id, delta) ==
    Let([c0 \in {IF delta <= INT32_MAX THEN c ELSE Abort(c, "send_window_update: delta <= INT32_MAX")} |->
        Let([c1 \in {h2o_http2_conn_request_write(Encode(c0, OutFrame("WINDOW_UPDATE", stream_id, delta, "")))} |->
    IF stream_id = 0 THEN [c1 EXCEPT !.input_window = @ + delta]
       ELSE [c1 EXCEPT !.streams[stream_id].input_window = @ + delta]])])

\* a variant that leaves the input window of the stream at its default
update_stream_input_window_idle(c, id, delta) == c

\* a variant that keeps the accumulator after the WINDOW_UPDATE
update_stream_input_window_twice(c, id, delta) ==
    LET c1 == [c EXCEPT !.streams[id].bytes_unnotified = @ + delta]
    IN IF c1.streams[id].bytes_unnotified >= c1.streams[id].input_window
       THEN send_window_update(c1, id, c1.streams[id].bytes_unnotified)
       ELSE c1

update_stream_input_window(c, id, delta) ==
    LET c1 == [c EXCEPT !.streams[id].bytes_unnotified = @ + delta]
    IN IF c1.streams[id].bytes_unnotified >= c1.streams[id].input_window
       THEN [send_window_update(c1, id, c1.streams[id].bytes_unnotified) EXCEPT !.streams[id].bytes_unnotified = 0]
       ELSE c1

(* ------------------------ admission: 170-229 ---------------------------- *)
\* a variant that admits one request more than the configuration allows
can_run_requests_lax(c) == c.ns["pull"].half_closed + c.ns["push"].half_closed <= MaxConcurrentRequests

can_run_requests(c) == c.ns["pull"].half_closed + c.ns["push"].half_closed < MaxConcurrentRequests

\* h2o_process_request: the request is handed to the application, which answers later; a handler
\* that streams the request body may install write_req.cb at once
h2o_process_request(c, id) ==
    LET c1 == [c EXCEPT !.streams[id].process_called = TRUE,
                        !.streams[id].write_req = c.streams[id].proceed_req /\ c.oracle.install_write_req]
    IN Ev(c1, <<"h2o_process_request", id>>)

\* a variant that enters the streamed mode without extending the stream's input window
process_request_default_window(c, id) ==
    LET s == c.streams[id] IN
        Let([c1 \in {IF s.proceed_req
              THEN [c EXCEPT !.req_streaming_in_progress = @ + 1, !.streams[id].streamed = TRUE,
                             !.tunnel = IF s.is_tunnel_req THEN @ + 1 ELSE @]
              ELSE IF s.state < SS.SEND_HEADERS
                   THEN h2o_http2_stream_set_state(h2o_http2_stream_set_state(c, id, SS.REQ_PENDING), id,
                                                   SS.SEND_HEADERS)
                   ELSE c} |->
        LET c2 == IF ~h2o_http2_stream_is_push(id) /\ c1.pull_max_processed < id
              THEN [c1 EXCEPT !.pull_max_processed = id] ELSE c1
    IN h2o_process_request(c2, id)])

\* a variant that takes the stream out of the streams the server is working on
process_request_unblocking(c, id) ==
    Let([c0 \in {IF c.streams[id].blocked_by_server THEN h2o_http2_stream_set_blocked_by_server(c, id, FALSE)
              ELSE c} |->
        Let([c1 \in {IF c0.streams[id].state < SS.SEND_HEADERS /\ ~c0.streams[id].proceed_req
              THEN h2o_http2_stream_set_state(h2o_http2_stream_set_state(c0, id, SS.REQ_PENDING), id,
                                              SS.SEND_HEADERS)
              ELSE c0} |->
    h2o_process_request(c1, id)])])

process_request(c, id) ==
    LET s == c.streams[id] IN
        Let([c1 \in {IF s.proceed_req
              THEN Let([a \in {IF s.body \in {RB.NONE, RB.CLOSE_DELIVERED}
                            THEN Abort(c, "process_request: req_body.state") ELSE c} |->
                       Let([b \in {[a EXCEPT !.req_streaming_in_progress = @ + 1, !.streams[id].streamed = TRUE,
                                      !.tunnel = IF s.is_tunnel_req THEN @ + 1 ELSE @]} |->
                   update_stream_input_window(b, id, ActiveStreamWindow - StreamInitialWindow)])])
              ELSE IF s.state < SS.SEND_HEADERS
                   THEN h2o_http2_stream_set_state(h2o_http2_stream_set_state(c, id, SS.REQ_PENDING), id,
                                                   SS.SEND_HEADERS)
                   ELSE c} |->
        LET c2 == IF ~h2o_http2_stream_is_push(id) /\ c1.pull_max_processed < id
              THEN [c1 EXCEPT !.pull_max_processed = id] ELSE c1
    IN h2o_process_request(c2, id)])

\* a variant that lets one streaming request more through than the configuration allows
StreamingLimitReached_lax(c) == c.req_streaming_in_progress - c.tunnel > MaxConcurrentStreaming

\* lines 217-219
StreamingLimitReached(c) == c.req_streaming_in_progress - c.tunnel >= MaxConcurrentStreaming

RECURSIVE run_pending_pass(_, _, _)
\* the for loop of run_pending_requests, from position i of the queue; the result is <<conn, ran_one_request>>
\* a dispatch is recorded as <<"dispatch", id, the sum of the half_closed counters, of the streams
\* ahead of it in the queue whether they are streaming requests, _req_streaming_in_progress - tunnel,
\* whether the stream itself is a streaming request>>, a skip as <<"skip", id, the same difference>>
run_pending_pass(c, i, ran) ==
    IF i > Len(c.pending) \/ ~can_run_requests(c) THEN <<c, ran>>
    ELSE LET id == c.pending[i]
             streaming == c.req_streaming_in_progress - c.tunnel
         IN IF c.streams[id].proceed_req /\ StreamingLimitReached(c)
            THEN run_pending_pass(Ev(c, <<"skip", id, streaming>>), i + 1, ran)
            ELSE Let([c1 \in {Ev(c, <<"dispatch", id, c.ns["pull"].half_closed + c.ns["push"].half_closed,
                                   {c.streams[c.pending[k]].proceed_req : k \in 1..(i - 1)},
                                   streaming, c.streams[id].proceed_req>>)} |->
                 run_pending_pass(process_request(h2o_linklist_unlink(c1, id), id), i, TRUE)])

RECURSIVE run_pending_requests(_)
run_pending_requests(c) ==
    Let([r \in {run_pending_pass(c, 1, FALSE)} |->
    IF r[2] /\ r[1].pending # <<>> THEN run_pending_requests(r[1]) ELSE r[1]])

(* --------------------- request body state: 293-313 ---------------------- *)
\* a variant that takes every request whose body is closed out of the streaming requests
set_req_body_state_uncounting(c, id, new_state) ==
    LET s == c.streams[id]
        c0 == IF s.body < new_state THEN c ELSE Abort(c, "set_req_body_state: req_body.state < new_state") IN
        Let([c1 \in {IF new_state = RB.CLOSE_DELIVERED
              THEN [c0 EXCEPT !.req_streaming_in_progress = @ - 1,
                              !.tunnel = IF s.is_tunnel_req THEN @ - 1 ELSE @]
              ELSE c0} |->
    [c1 EXCEPT !.streams[id].body = new_state]])

set_req_body_state(c, id, new_state) ==
    LET s == c.streams[id]
        c0 == IF s.body < new_state THEN c ELSE Abort(c, "set_req_body_state: req_body.state < new_state") IN
        Let([c1 \in {IF new_state = RB.NONE THEN Abort(c0, "set_req_body_state: invalid state")
              ELSE IF new_state = RB.CLOSE_DELIVERED
              THEN Let([a \in {IF s.proceed_req THEN Abort(c0, "set_req_body_state: proceed_req == NULL") ELSE c0} |->
                   IF s.streamed
                      THEN [a EXCEPT !.req_streaming_in_progress = @ - 1,
                                     !.tunnel = IF s.is_tunnel_req THEN @ - 1 ELSE @]
                      ELSE a])
              ELSE c0} |->
    [c1 EXCEPT !.streams[id].body = new_state]])

(* ---------------------- closing a stream: 315-359 ----------------------- *)
\* a variant that closes the request body of every stream that has one
ReqBodyIsOpen_lax(s) == s.body # RB.NONE

\* line 323: the request body has been opened and its end has not been delivered
ReqBodyIsOpen(s) == s.body # RB.NONE /\ s.body < RB.CLOSE_DELIVERED

\* a variant that keeps writing to the slot it wrote to first
h2o_http2_conn_preserve_stream_scheduler_in_place(c, id) ==
    IF ~c.streams[id].sched_open THEN Abort(c, "preserve_stream_scheduler: scheduler_is_open")
    ELSE LET dst == c.next_slot
             old == c.recently_closed[dst]
             c2 == IF old.stream_id = 0 THEN c
                   ELSE IF ~old.sched_open THEN Abort(c, "preserve_stream_scheduler: scheduler_is_open(dst)")
                   ELSE Ev([c EXCEPT !.node = [n \in DOMAIN @ \ {old.stream_id} |->
                                                   IF @[n].parent = old.stream_id
                                                   THEN [@[n] EXCEPT !.parent = c.node[old.stream_id].parent]
                                                   ELSE @[n]]],
                           <<"h2o_http2_scheduler_close", old.stream_id, dst>>)
         IN [c2 EXCEPT !.recently_closed[dst] = [stream_id |-> id, sched_open |-> c.streams[id].sched_open],
                       !.active = @ \ {id}]

\* lines 273-291: the slot at next_slot takes the scheduler node of the stream; a slot holds
\* <<stream id, whether its node is open>>, stream id 0 standing for NULL; the node keeps its place
\* in the tree (h2o_http2_scheduler_relocate), and h2o_http2_scheduler_close of the node the slot
\* held hands that node's children to its parent
h2o_http2_conn_preserve_stream_scheduler(c, id) ==
    IF ~c.streams[id].sched_open THEN Abort(c, "preserve_stream_scheduler: scheduler_is_open")
    ELSE LET dst == c.next_slot
             old == c.recently_closed[dst]
             c1 == [c EXCEPT !.next_slot = IF @ + 1 = HTTP2_CLOSED_STREAM_PRIORITIES THEN 0 ELSE @ + 1]
             c2 == IF old.stream_id = 0 THEN c1
                   ELSE IF ~old.sched_open THEN Abort(c1, "preserve_stream_scheduler: scheduler_is_open(dst)")
                   ELSE Ev([c1 EXCEPT !.node = [n \in DOMAIN @ \ {old.stream_id} |->
                                                    IF @[n].parent = old.stream_id
                                                    THEN [@[n] EXCEPT !.parent = c.node[old.stream_id].parent]
                                                    ELSE @[n]]],
                           <<"h2o_http2_scheduler_close", old.stream_id, dst>>)
         IN [c2 EXCEPT !.recently_closed[dst] = [stream_id |-> id, sched_open |-> c.streams[id].sched_open],
                       !.active = @ \ {id}]

h2o_http2_conn_unregister_stream(c, id) ==
        Let([c1 \in {h2o_http2_conn_preserve_stream_scheduler(c, id)} |->
        Let([c2 \in {IF ReqBodyIsOpen(c1.streams[id])
              THEN set_req_body_state([c1 EXCEPT !.streams[id].proceed_req = FALSE], id, RB.CLOSE_DELIVERED)
              ELSE c1} |->
        Let([c3 \in {IF c2.streams[id].blocked_by_server THEN h2o_http2_stream_set_blocked_by_server(c2, id, FALSE)
              ELSE c2} |->
        LET st == c3.streams[id].state
        linked == h2o_linklist_is_linked(c3, id) IN
        Let([c4 \in {CASE st = SS.RECV_BODY -> IF linked THEN h2o_linklist_unlink(c3, id) ELSE c3
                [] st \in {SS.IDLE, SS.RECV_HEADERS} ->
                     IF linked THEN Abort(c3, "unregister_stream: !is_linked(_link)") ELSE c3
                [] st = SS.REQ_PENDING ->
                     IF linked THEN h2o_linklist_unlink(c3, id)
                     ELSE Abort(c3, "unregister_stream: is_linked(_link)")
                [] OTHER -> IF linked THEN h2o_linklist_unlink(c3, id) ELSE c3} |->
        Let([c5 \in {IF st # SS.END_STREAM THEN h2o_http2_stream_set_state(c4, id, SS.END_STREAM) ELSE c4} |->
        LET c6 == [c5 EXCEPT !.streams = [i \in DOMAIN c5.streams \ {id} |-> c5.streams[i]]]
    IN IF c6.state < CS.IS_CLOSING THEN update_idle_timeout(run_pending_requests(c6)) ELSE c6])])])])])

\* h2o_http2_stream_close: unregister the stream, dispose the request and free the stream
h2o_http2_stream_close(c, id) == h2o_http2_conn_unregister_stream(c, id)

\* h2o_http2_stream_reset: close at once, or let the write-completion callback close a stream
\* that is linked for it
h2o_http2_stream_reset(c, id) ==
    LET st == c.streams[id].state
    IN IF st \in {SS.IDLE, SS.RECV_HEADERS, SS.RECV_BODY, SS.REQ_PENDING} THEN h2o_http2_stream_close(c, id)
       ELSE Let([c1 \in {IF st # SS.END_STREAM THEN h2o_http2_stream_set_state(c, id, SS.END_STREAM) ELSE c} |->
                LET c2 == [c1 EXCEPT !.streams[id].pending_data = FALSE]
            IN IF h2o_linklist_is_linked(c2, id) THEN c2 ELSE h2o_http2_stream_close(c2, id)])

(* ------------------- disregarded requests: 231-261 ---------------------- *)
\* a variant that refuses the stream with a RST_STREAM frame before dropping it
reset_stream_if_disregarded_refusing(c, id) ==
    IF ~h2o_http2_stream_is_push(id) /\ id > c.pull_max_open
    THEN <<h2o_http2_stream_reset(stream_send_error(c, id, ERR.REFUSED_STREAM), id), TRUE>>
    ELSE <<c, FALSE>>

reset_stream_if_disregarded(c, id) ==
    IF ~h2o_http2_stream_is_push(id) /\ id > c.pull_max_open
    THEN <<h2o_http2_stream_reset(c, id), TRUE>>
    ELSE <<c, FALSE>>

\* a variant that forgets to link the stream
execute_or_enqueue_request_core_unlinked(c, id) == update_idle_timeout(run_pending_requests(c))

execute_or_enqueue_request_core(c, id) ==
    update_idle_timeout(run_pending_requests(h2o_linklist_insert(c, "pending", id)))

execute_or_enqueue_request(c, id) ==
    Let([c0 \in {IF c.streams[id].state \in {SS.RECV_HEADERS, SS.REQ_PENDING} THEN c
              ELSE Abort(c, "execute_or_enqueue_request: state")} |->
        Let([r \in {reset_stream_if_disregarded(c0, id)} |->
    IF r[2] THEN r[1]
       ELSE Let([c1 \in {h2o_http2_stream_set_state(c0, id, SS.REQ_PENDING)} |->
                Let([c2 \in {IF ~c1.streams[id].blocked_by_server
                      THEN h2o_http2_stream_set_blocked_by_server(c1, id, TRUE) ELSE c1} |->
            execute_or_enqueue_request_core(c2, id)])])])])

(* ---------------------- the connection object: 1684-1756 ---------------- *)
NoOracle == [can_stream |-> FALSE, write_req_ok |-> TRUE, install_write_req |-> FALSE]

NoCounts == [open |-> 0, half_closed |-> 0, send_body |-> 0]

\* create_conn, followed by h2o_http2_accept's read_start and update_idle_timeout
create_conn(gst) ==
    [state |-> CS.OPEN, destroyed |-> FALSE, aborted |-> "", read_expect |-> "expect_preface",
     headers_unparsed |-> <<>>, input |-> <<>>, streams |-> <<>>, pending |-> <<>>, to_proceed |-> <<>>,
     early |-> <<>>, ns |-> [pull |-> NoCounts, push |-> NoCounts, priority |-> NoCounts],
     blocked_by_server |-> 0, req_streaming_in_progress |-> 0, tunnel |-> 0,
     pull_max_open |-> 0, pull_max_processed |-> 0, push_max_open |-> 0,
     wbuf |-> 0, wbuf_goaway |-> FALSE, in_flight |-> 0, wtimer |-> FALSE, itimer |-> TRUE, gcb |-> "NULL", gtimer |-> FALSE,
     reading |-> TRUE, notify |-> FALSE, active |-> {}, input_window |-> ConnectionWindow,
     peer_initial_window |-> StreamInitialWindow, write_window |-> StreamInitialWindow,
     early_data |-> FALSE, graceful_shutdown_timeout |-> gst, ev |-> <<>>, oracle |-> NoOracle,
     goaway |-> -1, prepared |-> {},
     recently_closed |-> [i \in 0..(HTTP2_CLOSED_STREAM_PRIORITIES - 1) |-> [stream_id |-> 0, sched_open |-> FALSE]],
     next_slot |-> 0, is_chromium_dependency_tree |-> TRUE, node |-> <<>>]

(* ------------------- closing the connection: 361-432 -------------------- *)
RECURSIVE close_all_streams(_)
\* kh_foreach_value(conn->streams, stream, { h2o_http2_stream_close(conn, stream); })
close_all_streams(c) ==
    IF DOMAIN c.streams = {} THEN c
    ELSE LET id == CHOOSE i \in DOMAIN c.streams : \A j \in DOMAIN c.streams : i <= j
         IN close_all_streams(h2o_http2_stream_close(c, id))

CountersAreZero(c) ==
    /\ c.ns["pull"] = NoCounts
    /\ c.ns["push"].half_closed = 0 /\ c.ns["push"].send_body = 0
    /\ c.ns["priority"].open = 0
    /\ c.blocked_by_server = 0 /\ c.req_streaming_in_progress = 0 /\ c.tunnel = 0

close_connection_now(c) ==
    LET c1 == [c EXCEPT !.state = CS.IS_CLOSING] IN
        Let([c2 \in {IF c1.wtimer THEN Abort(c1, "close_connection_now: !h2o_timer_is_linked(_write.timeout_entry)")
              ELSE c1} |->
        Let([c3 \in {close_all_streams(c2)} |->
        Let([c4 \in {IF CountersAreZero(c3) THEN c3 ELSE Abort(c3, "close_connection_now: num_streams == 0")} |->
        LET c5 == IF c4.pending = <<>> THEN c4 ELSE Abort(c4, "close_connection_now: is_empty(_pending_reqs)") IN
        Let([c6 \in {IF c5.to_proceed = <<>> THEN c5
              ELSE Abort(c5, "close_connection_now: is_empty(streams_to_proceed)")} |->
        LET Freed == {i \in DOMAIN c6.recently_closed :
                         \A j \in 0..i : c6.recently_closed[j].stream_id # 0}
            c7 == IF \E i \in Freed : ~c6.recently_closed[i].sched_open
                  THEN Abort(c6, "close_connection_now: scheduler_is_open(closed_stream)")
                  ELSE Ev(c6, <<"close_connection_now", c6.wbuf, c6.wbuf_goaway>>)
    IN [create_conn(c.graceful_shutdown_timeout) EXCEPT
           !.state = CS.IS_CLOSING, !.destroyed = TRUE, !.aborted = c7.aborted, !.ev = c7.ev,
           !.read_expect = c.read_expect, !.itimer = FALSE, !.reading = FALSE,
           !.pull_max_open = c.pull_max_open, !.push_max_open = c.push_max_open,
           !.pull_max_processed = c.pull_max_processed, !.goaway = c.goaway]])])])])

\* a variant that defers the close without marking the connection
close_connection_unmarked(c) ==
    IF c.in_flight # 0 \/ c.wtimer THEN <<c, 0>>
    ELSE <<close_connection_now([c EXCEPT !.state = CS.IS_CLOSING]), -1>>

\* the result is <<conn, return value>>
close_connection(c) ==
    LET c1 == [c EXCEPT !.state = CS.IS_CLOSING]
    IN IF c1.in_flight # 0 \/ c1.wtimer THEN <<c1, 0>> ELSE <<close_connection_now(c1), -1>>

(* ------------------------ GOAWAY: 71-132 -------------------------------- *)
\* a variant that sends GOAWAY whatever the state of the connection
enqueue_goaway_in_any_state(c, errnum, additional_data) ==
    [h2o_http2_conn_request_write(Encode(c, OutFrame("GOAWAY", c.pull_max_open, -errnum, additional_data)))
        EXCEPT !.state = CS.HALF_CLOSED, !.goaway = c.pull_max_open]

enqueue_goaway(c, errnum, additional_data) ==
    IF c.state < CS.IS_CLOSING
    THEN [h2o_http2_conn_request_write(Encode(c, OutFrame("GOAWAY", c.pull_max_open, -errnum, additional_data)))
            EXCEPT !.state = CS.HALF_CLOSED, !.goaway = c.pull_max_open]
    ELSE c

\* a variant that lets the last timer pass without closing the connection
graceful_shutdown_close_straggler_idle(c) == [c EXCEPT !.gtimer = FALSE]

graceful_shutdown_close_straggler(c) == close_connection([c EXCEPT !.gtimer = FALSE])[1]

\* a variant that arms the last timer whatever the configuration says
graceful_shutdown_resend_goaway_always(c) ==
    LET c0 == [c EXCEPT !.gtimer = FALSE]
    IN IF c0.state < CS.HALF_CLOSED
       THEN [enqueue_goaway(c0, ERR.NONE, "") EXCEPT !.gcb = "graceful_shutdown_close_straggler",
                                                     !.gtimer = TRUE]
       ELSE c0

graceful_shutdown_resend_goaway(c) ==
    LET c0 == [c EXCEPT !.gtimer = FALSE]
    IN IF c0.state < CS.HALF_CLOSED
       THEN Let([c1 \in {enqueue_goaway(c0, ERR.NONE, "")} |->
            IF c1.graceful_shutdown_timeout > 0
               THEN [c1 EXCEPT !.gcb = "graceful_shutdown_close_straggler", !.gtimer = TRUE]
               ELSE c1])
       ELSE c0

\* a variant that sends the first GOAWAY the way the later ones are sent
initiate_graceful_shutdown_closing(c) ==
    LET c1 == [c EXCEPT !.gcb = "graceful_shutdown_resend_goaway"] IN
        Let([c2 \in {IF c1.state < CS.HALF_CLOSED THEN enqueue_goaway(c1, ERR.NONE, "graceful shutdown") ELSE c1} |->
    [c2 EXCEPT !.gtimer = TRUE]])

initiate_graceful_shutdown(c) ==
    LET c0 == IF c.gcb = "NULL" THEN c
              ELSE Abort(c, "initiate_graceful_shutdown: _graceful_shutdown_timeout.cb == NULL") IN
        Let([c1 \in {[c0 EXCEPT !.gcb = "graceful_shutdown_resend_goaway"]} |->
        Let([c2 \in {IF c1.state < CS.HALF_CLOSED
              THEN h2o_http2_conn_request_write(
                       Encode(c1, OutFrame("GOAWAY", INT32_MAX, -ERR.NONE, "graceful shutdown")))
              ELSE c1} |->
    IF c2.gtimer THEN Abort(c2, "h2o_timer_link: !h2o_timer_is_linked") ELSE [c2 EXCEPT !.gtimer = TRUE]])])

\* a variant that closes at once whether or not a write is in flight
on_idle_timeout_closing_now(c) == close_connection_now([c EXCEPT !.itimer = FALSE])

on_idle_timeout(c) ==
    LET c0 == [c EXCEPT !.itimer = FALSE]
    IN IF c0.in_flight # 0 THEN close_connection_now(c0)
       ELSE close_connection(enqueue_goaway(c0, ERR.NONE, "idle timeout"))[1]

(* ---------------------- request body: 466-590, 855-901 ------------------- *)
write_streaming_body(c, id) ==
    LET s == c.streams[id]
        c0 == IF s.entity THEN Abort(c, "write_streaming_body: entity.base == NULL") ELSE c IN
        Let([c1 \in {CASE s.body \in {RB.OPEN_BEFORE_FIRST_FRAME, RB.OPEN} ->
                     IF s.bufsize # 0 THEN c0 ELSE Abort(c0, "write_streaming_body: req_body.buf->size != 0")
                [] s.body = RB.CLOSE_QUEUED ->
                     set_req_body_state([c0 EXCEPT !.streams[id].proceed_req = FALSE], id, RB.CLOSE_DELIVERED)
                [] OTHER -> Abort(c0, "write_streaming_body: unexpected req_body.state")} |->
        LET c2 == [c1 EXCEPT !.streams[id].entity = TRUE, !.streams[id].entity_len = s.bufsize]
    IN IF ~c2.oracle.write_req_ok
       THEN h2o_http2_stream_reset(stream_send_error(c2, id, ERR.STREAM_CLOSED), id)
       ELSE IF c2.streams[id].body = RB.CLOSE_DELIVERED /\ c2.streams[id].state = SS.END_STREAM
       THEN h2o_http2_stream_close(c2, id)
       ELSE c2])

\* a variant that compares with the content-length before it compares with the size limit
handle_request_body_chunk_length_first(c, id, len, is_end_stream) ==
    LET s0 == c.streams[id] IN
        Let([is_first \in {s0.body = RB.OPEN_BEFORE_FIRST_FRAME} |->
        Let([c1 \in {CASE s0.body = RB.OPEN_BEFORE_FIRST_FRAME -> set_req_body_state(c, id, RB.OPEN)
                [] s0.body = RB.OPEN -> c
                [] OTHER -> Abort(c, "handle_request_body_chunk: unexpected req_body.state")} |->
        LET c2 == [c1 EXCEPT !.streams[id].received = @ + len]
        received == c2.streams[id].received
        cl == s0.content_length
    IN IF cl # SIZE_MAX /\ (IF is_end_stream THEN received # cl ELSE received > cl)
       THEN h2o_http2_stream_reset(stream_send_error(c2, id, ERR.PROTOCOL), id)
       ELSE IF received > MaxRequestEntitySize
       THEN h2o_http2_stream_reset(stream_send_error(c2, id, ERR.REFUSED_STREAM), id)
       ELSE
       Let([c3 \in {IF ~c2.streams[id].blocked_by_server
                 THEN h2o_http2_stream_set_blocked_by_server(c2, id, TRUE) ELSE c2} |->
           Let([r \in {reset_stream_if_disregarded(c3, id)} |->
       IF r[2] THEN r[1]
          ELSE
          LET req_queued == c3.streams[id].proceed_req IN
              Let([c4 \in {IF is_end_stream
                    THEN Let([a \in {IF c3.streams[id].state < SS.REQ_PENDING
                                  THEN Let([a1 \in {h2o_http2_stream_set_state(c3, id, SS.REQ_PENDING)} |->
                                       IF a1.streams[id].process_called
                                          THEN h2o_http2_stream_set_state(a1, id, SS.SEND_HEADERS)
                                          ELSE a1])
                                  ELSE c3} |->
                         IF a.streams[id].write_req
                            THEN set_req_body_state(a, id, RB.CLOSE_QUEUED)
                            ELSE set_req_body_state([a EXCEPT !.streams[id].proceed_req = FALSE], id,
                                                    RB.CLOSE_DELIVERED)])
                    ELSE c3} |->
              LET c5 == [c4 EXCEPT !.streams[id].bufsize = @ + len]
              s5 == c5.streams[id]
          IN IF s5.streamed
             THEN IF s5.write_req
                  THEN IF ~s5.entity THEN write_streaming_body(c5, id) ELSE c5
                  ELSE [c5 EXCEPT !.streams[id].entity = TRUE, !.streams[id].entity_len = s5.bufsize]
             ELSE
             Let([c6 \in {[c5 EXCEPT !.streams[id].entity = TRUE, !.streams[id].entity_len = s5.bufsize]} |->
             IF is_first /\ ~is_end_stream /\ c6.oracle.can_stream
                THEN execute_or_enqueue_request_core([c6 EXCEPT !.streams[id].proceed_req = TRUE], id)
                ELSE
                Let([c7 \in {IF is_first /\ ~is_end_stream
                          THEN update_stream_input_window(c6, id, ActiveStreamWindow - StreamInitialWindow)
                          ELSE c6} |->
                IF is_end_stream /\ ~req_queued THEN execute_or_enqueue_request(c7, id) ELSE c7])])])])])])])

handle_request_body_chunk(c, id, len, is_end_stream) ==
    LET s0 == c.streams[id] IN
        Let([is_first \in {s0.body = RB.OPEN_BEFORE_FIRST_FRAME} |->
        Let([c1 \in {CASE s0.body = RB.OPEN_BEFORE_FIRST_FRAME -> set_req_body_state(c, id, RB.OPEN)
                [] s0.body = RB.OPEN -> c
                [] OTHER -> Abort(c, "handle_request_body_chunk: unexpected req_body.state")} |->
        LET c2 == [c1 EXCEPT !.streams[id].received = @ + len]
        received == c2.streams[id].received
        cl == s0.content_length
    IN IF received > MaxRequestEntitySize
       THEN h2o_http2_stream_reset(stream_send_error(c2, id, ERR.REFUSED_STREAM), id)
       ELSE IF cl # SIZE_MAX /\ (IF is_end_stream THEN received # cl ELSE received > cl)
       THEN h2o_http2_stream_reset(stream_send_error(c2, id, ERR.PROTOCOL), id)
       ELSE
       Let([c3 \in {IF ~c2.streams[id].blocked_by_server
                 THEN h2o_http2_stream_set_blocked_by_server(c2, id, TRUE) ELSE c2} |->
           Let([r \in {reset_stream_if_disregarded(c3, id)} |->
       IF r[2] THEN r[1]
          ELSE
          LET req_queued == c3.streams[id].proceed_req IN
              Let([c4 \in {IF is_end_stream
                    THEN Let([a \in {IF c3.streams[id].state < SS.REQ_PENDING
                                  THEN Let([a1 \in {h2o_http2_stream_set_state(c3, id, SS.REQ_PENDING)} |->
                                       IF a1.streams[id].process_called
                                          THEN h2o_http2_stream_set_state(a1, id, SS.SEND_HEADERS)
                                          ELSE a1])
                                  ELSE c3} |->
                         IF a.streams[id].write_req
                            THEN set_req_body_state(a, id, RB.CLOSE_QUEUED)
                            ELSE set_req_body_state([a EXCEPT !.streams[id].proceed_req = FALSE], id,
                                                    RB.CLOSE_DELIVERED)])
                    ELSE c3} |->
              LET c5 == [c4 EXCEPT !.streams[id].bufsize = @ + len]
              s5 == c5.streams[id]
          IN IF s5.streamed
             THEN IF s5.write_req
                  THEN IF ~s5.entity THEN write_streaming_body(c5, id) ELSE c5
                  ELSE [c5 EXCEPT !.streams[id].entity = TRUE, !.streams[id].entity_len = s5.bufsize]
             ELSE
             Let([c6 \in {[c5 EXCEPT !.streams[id].entity = TRUE, !.streams[id].entity_len = s5.bufsize]} |->
             IF is_first /\ ~is_end_stream /\ c6.oracle.can_stream
                THEN execute_or_enqueue_request_core([c6 EXCEPT !.streams[id].proceed_req = TRUE], id)
                ELSE
                Let([c7 \in {IF is_first /\ ~is_end_stream
                          THEN update_stream_input_window(c6, id, ActiveStreamWindow - StreamInitialWindow)
                          ELSE c6} |->
                IF is_end_stream /\ ~req_queued THEN execute_or_enqueue_request(c7, id) ELSE c7])])])])])])])

proceed_request(c, id, errstr) ==
    LET c0 == IF c.streams[id].streamed THEN c ELSE Abort(c, "proceed_request: req_body.streamed") IN
        Let([written \in {c0.streams[id].entity_len} |->
        Let([c1 \in {[c0 EXCEPT !.streams[id].bufsize = @ - written, !.streams[id].entity = FALSE,
                         !.streams[id].entity_len = 0]} |->
    IF errstr
       THEN Let([c2 \in {set_req_body_state([c1 EXCEPT !.streams[id].proceed_req = FALSE], id, RB.CLOSE_DELIVERED)} |->
            IF c2.state < CS.IS_CLOSING
               THEN Let([c3 \in {stream_send_error(c2, id, ERR.STREAM_CLOSED)} |->
                        LET c4 == [c3 EXCEPT !.active = @ \ {id}] IN
                        Let([c5 \in {IF ~h2o_linklist_is_linked(c4, id) THEN h2o_linklist_insert(c4, "proceed", id)
                              ELSE c4} |->
                    h2o_http2_stream_reset(c5, id)])])
               ELSE c2])
       ELSE CASE c1.streams[id].body = RB.OPEN ->
                   LET a == IF written # 0 THEN c1 ELSE Abort(c1, "proceed_request: written != 0") IN
                       Let([b \in {update_stream_input_window(a, id, written)} |->
                       Let([d \in {IF b.streams[id].blocked_by_server /\ b.streams[id].input_window > 0
                            THEN update_idle_timeout(h2o_http2_stream_set_blocked_by_server(b, id, FALSE))
                            ELSE b} |->
                   IF d.streams[id].bufsize # 0 THEN write_streaming_body(d, id) ELSE d])])
              [] c1.streams[id].body = RB.CLOSE_QUEUED ->
                   write_streaming_body(IF written # 0 THEN c1 ELSE Abort(c1, "proceed_request: written != 0"), id)
              [] OTHER -> Abort(c1, "proceed_request: unexpected req_body_state")])])

(* ----------------------- the response (stream.c) ------------------------ *)
h2o_http2_stream_has_pending_data(c, id) == c.streams[id].pending_data

h2o_http2_scheduler_activate(c, id) == [c EXCEPT !.active = @ \cup {id}]

\* a variant that puts the stream on streams_to_proceed in either case
h2o_http2_conn_register_for_proceed_callback_linking(c, id) ==
    Let([c1 \in {h2o_linklist_insert(h2o_http2_conn_request_write(c), "proceed", id)} |->
        LET s == c1.streams[id]
    IN IF (s.pending_data \/ s.state >= SS.SEND_BODY_IS_FINAL) /\ s.output_window > 0
       THEN h2o_http2_scheduler_activate(c1, id)
       ELSE c1])

\* lines 1398-1405: sock->ssl != NULL && h2o_socket_ssl_is_early_data(sock) is early_data
h2o_http2_conn_register_for_replay(c, id) ==
    IF c.early_data THEN h2o_linklist_insert(c, "early", id)
    ELSE Ev(c, <<"h2o_replay_request_deferred", id>>)

\* lines 1384-1396
h2o_http2_conn_register_for_proceed_callback(c, id) ==
    Let([c1 \in {h2o_http2_conn_request_write(c)} |->
        LET s == c1.streams[id]
    IN IF s.pending_data \/ s.state >= SS.SEND_BODY_IS_FINAL
       THEN IF s.output_window > 0
            THEN h2o_http2_scheduler_activate(
                     IF h2o_linklist_is_linked(c1, id)
                     THEN Abort(c1, "register_for_proceed_callback: !is_linked(_link)") ELSE c1, id)
            ELSE c1
       ELSE h2o_linklist_insert(c1, "proceed", id)])

\* send_headers of stream.c: the response HEADERS are flattened into the write buffer
send_headers(c, id) ==
    h2o_http2_stream_set_state(
        h2o_http2_conn_request_write(Encode(c, OutFrame("HEADERS", id, 0, ""))), id, SS.SEND_BODY)

\* finalostream_send of stream.c: the application hands over (a part of) the response
finalostream_send(c, id, is_final, has_data) ==
    Let([c0 \in {IF c.streams[id].blocked_by_server THEN h2o_http2_stream_set_blocked_by_server(c, id, FALSE)
              ELSE c} |->
        LET st == c0.streams[id].state IN
        Let([c1 \in {IF st = SS.RECV_BODY THEN h2o_http2_stream_set_state(c0, id, SS.REQ_PENDING) ELSE c0} |->
        Let([c2 \in {IF st \in {SS.RECV_BODY, SS.REQ_PENDING} THEN h2o_http2_stream_set_state(c1, id, SS.SEND_HEADERS)
              ELSE c1} |->
        Let([c3 \in {IF st \in {SS.RECV_BODY, SS.REQ_PENDING, SS.SEND_HEADERS} THEN send_headers(c2, id) ELSE c2} |->
        Let([c4 \in {IF is_final THEN h2o_http2_stream_set_state(c3, id, SS.SEND_BODY_IS_FINAL) ELSE c3} |->
    IF st = SS.END_STREAM THEN c0
       ELSE IF st \in {SS.IDLE, SS.RECV_HEADERS, SS.SEND_BODY_IS_FINAL}
       THEN Abort(c0, "finalostream_send: cannot be in a receiving state")
       ELSE h2o_http2_conn_register_for_proceed_callback(
                [c4 EXCEPT !.streams[id].pending_data = has_data, !.streams[id].sending = TRUE], id)])])])])])

\* h2o_send_error_400: the response is generated at once
h2o_send_error_400(c, id) ==
    finalostream_send([c EXCEPT !.streams[id].process_called = TRUE], id, TRUE, TRUE)

\* lines 592-599
send_invalid_request_error(c, id) ==
    h2o_send_error_400(
        h2o_http2_stream_set_state(h2o_http2_stream_set_state(c, id, SS.REQ_PENDING), id, SS.SEND_HEADERS), id)

(* -------------------- request headers: 601-688 -------------------------- *)
\* the frame handlers and the _read_expect functions give <<conn, return value, *err_desc>>
Ok(c) == <<c, 0, "">>
Fail(c, ret, err_desc) == <<c, ret, err_desc>>

\* what h2o_hpack_parse_request returns for a header block
h2o_hpack_parse_request(hdr) ==
    CASE hdr.m = "HPACKERR" -> ERR.COMPRESSION
      [] hdr.m = "INVCHAR" -> ERR.INVALID_HEADER_CHAR
      [] OTHER -> 0

handle_incoming_request(c, id, hdr) ==
    Let([ret \in {h2o_hpack_parse_request(hdr)} |->
        Let([c0 \in {IF c.streams[id].state = SS.RECV_HEADERS THEN c
              ELSE Abort(c, "handle_incoming_request: state == RECV_HEADERS")} |->
        LET is_connect == hdr.m = "CONNECT"
        c1 == [c0 EXCEPT !.streams[id].content_length = hdr.n]
        buf == c1.streams[id].buf
    IN IF ret # 0 /\ ret # ERR.INVALID_HEADER_CHAR THEN Fail(c0, ret, "hpack")
       ELSE IF hdr.m = "BAD"
       THEN Ok(h2o_http2_stream_reset(stream_send_error(c1, id, ERR.PROTOCOL), id))
       ELSE IF c1.ns["pull"].open > H2O_HTTP2_SETTINGS_HOST_MAX_CONCURRENT_STREAMS
       THEN Ok(h2o_http2_stream_reset(stream_send_error(c1, id, ERR.REFUSED_STREAM), id))
       ELSE IF ret # 0 THEN Ok(send_invalid_request_error(c1, id))
       ELSE IF is_connect
       THEN IF hdr.n # SIZE_MAX \/ ~buf THEN Ok(send_invalid_request_error(c1, id))
            ELSE Let([a \in {[c1 EXCEPT !.streams[id].is_tunnel_req = TRUE, !.streams[id].proceed_req = TRUE]} |->
                     Let([b \in {set_req_body_state(h2o_http2_stream_set_state(a, id, SS.RECV_BODY), id, RB.OPEN)} |->
                 Ok(process_request(b, id))])])
       ELSE IF ~buf THEN Ok(execute_or_enqueue_request(c1, id))
       ELSE Ok(set_req_body_state(h2o_http2_stream_set_state(c1, id, SS.RECV_BODY), id,
                                  RB.OPEN_BEFORE_FIRST_FRAME))])])

handle_trailing_headers(c, id, hdr) ==
    Let([ret \in {h2o_hpack_parse_request(hdr)} |->
    IF ret # 0 THEN Fail(c, ret, "hpack") ELSE Ok(handle_request_body_chunk(c, id, 0, TRUE))])

(* ------------------------ frame handlers: 903-1219 ----------------------- *)
h2o_http2_window_consume_window(avail, n) == avail - n

handle_data_frame(c, fr) ==
    \* frame->length: the payload and the padding
    LET frame_length == fr.n + (IF fr.m = "PADDED" THEN 1 ELSE 0)
        c1 == [c EXCEPT !.input_window = h2o_http2_window_consume_window(@, frame_length)] IN
        Let([c2 \in {IF c1.input_window <= ConnectionWindow \div 2
              THEN send_window_update(c1, 0, ConnectionWindow - c1.input_window) ELSE c1} |->
    IF ~Has(c2, fr.id)
       THEN IF fr.id <= c2.pull_max_open THEN Ok(stream_send_error(c2, fr.id, ERR.STREAM_CLOSED))
            ELSE Fail(c2, ERR.PROTOCOL, "invalid DATA frame")
       ELSE IF c2.streams[fr.id].body \notin {RB.OPEN_BEFORE_FIRST_FRAME, RB.OPEN}
       THEN Ok(h2o_http2_stream_reset(stream_send_error(c2, fr.id, ERR.STREAM_CLOSED), fr.id))
       ELSE Let([c3 \in {[c2 EXCEPT !.streams[fr.id].input_window =
                                        h2o_http2_window_consume_window(@, frame_length)]} |->
            Let([c4 \in {IF frame_length # fr.n
                          THEN update_stream_input_window(c3, fr.id, frame_length - fr.n) ELSE c3} |->
            IF fr.n # 0 \/ fr.es THEN Ok(handle_request_body_chunk(c4, fr.id, fr.n, fr.es))
               ELSE Ok(c4)])])])

\* h2o_http2_decode_priority_payload, h2o_http2_decode_headers_payload: the priority a frame
\* carries is its field pri; a PRIORITY frame without the field has no dependency and the weight
\* n, a HEADERS frame without it (no PRIORITY flag) has h2o_http2_default_priority
DecodedPriority(fr) ==
    IF "pri" \in DOMAIN fr THEN fr.pri
    ELSE [dependency |-> 0, weight |-> IF fr.t = "PRIORITY" THEN fr.n ELSE h2o_http2_default_priority,
          exclusive |-> FALSE]

\* lines 755-853.  The parent is the node of the recently-closed ring with the stream id of the
\* dependency, else the node of the stream of the map with that id, else the root, and then with
\* the default priority.  Lines 809-823 (the parent is in the ring and in the map, and has been
\* demoted) need a node preserved while its stream is open, which nothing in connection.c does;
\* they are marked, not modelled.  Lines 831-845 compare the weight with that of the node above
\* the parent (parent_sched->_parent), and with 256 if the parent is the root or a child of the
\* root.  h2o_http2_scheduler_rebind of scheduler.c: nothing changes if parent and weight are the
\* same and the priority is not exclusive; else a new parent that depends on the node is first
\* moved to the node's old parent (RFC 7540 5.3.3), the node moves below the new parent, and if
\* exclusive the other children of the new parent become children of the node
set_priority(c, id, given, scheduler_is_open) ==
    LET dep == given.dependency
        in_ring == dep # 0 /\ \E i \in DOMAIN c.recently_closed : c.recently_closed[i].stream_id = dep
        found == in_ring \/ (dep # 0 /\ Has(c, dep))
        parent_sched == IF found THEN dep ELSE 0
        priority == IF dep # 0 /\ ~found
                    THEN [dependency |-> 0, weight |-> h2o_http2_default_priority, exclusive |-> FALSE]
                    ELSE given
        not_chromium == in_ring /\ c.is_chromium_dependency_tree
                            /\ (c.node[dep].weight < priority.weight \/ ~priority.exclusive)
        c1 == IF in_ring /\ c.is_chromium_dependency_tree /\ ~not_chromium /\ Has(c, dep)
              THEN Abort(c, "set_priority: the parent is in the ring and in the map")
              ELSE [c EXCEPT !.is_chromium_dependency_tree = @ /\ ~not_chromium]
        parent_weight == IF parent_sched # 0 /\ c.node[parent_sched].parent # 0
                         THEN c.node[c.node[parent_sched].parent].weight ELSE 256
        c2 == [c1 EXCEPT !.is_chromium_dependency_tree =
                             @ /\ priority.exclusive /\ ~(parent_weight < priority.weight),
                         !.streams[id].weight = priority.weight]
    IN IF ~scheduler_is_open
       THEN h2o_http2_scheduler_open(c2, id, parent_sched, priority.weight, priority.exclusive)
       ELSE IF c.node[id].parent = parent_sched /\ c.node[id].weight = priority.weight /\ ~priority.exclusive
       THEN c2
       ELSE LET RECURSIVE depends_on(_, _)
                depends_on(t, n) == t # 0 /\ (c.node[t].parent = n \/ depends_on(c.node[t].parent, n))
                moved == IF depends_on(parent_sched, id)
                         THEN [c.node EXCEPT ![parent_sched].parent = c.node[id].parent] ELSE c.node
            IN [c2 EXCEPT !.node = [n \in DOMAIN moved |->
                                       IF n = id THEN [parent |-> parent_sched, weight |-> priority.weight]
                                       ELSE IF priority.exclusive /\ moved[n].parent = parent_sched
                                       THEN [moved[n] EXCEPT !.parent = id]
                                       ELSE moved[n]]]

\* the PREPARE_FOR_CONTINUATION label of handle_headers_frame
prepare_for_continuation(c, fr) ==
    Ok([c EXCEPT !.read_expect = "expect_continuation_of_headers", !.headers_unparsed = <<fr>>])

handle_headers_frame(c, fr) ==
    IF h2o_http2_stream_is_push(fr.id) THEN Fail(c, ERR.PROTOCOL, "invalid stream id in HEADERS frame")
    ELSE IF fr.id <= c.pull_max_open
    THEN IF ~Has(c, fr.id) THEN Fail(c, ERR.STREAM_CLOSED, "closed stream id in HEADERS frame")
         ELSE IF c.streams[fr.id].body \notin {RB.OPEN_BEFORE_FIRST_FRAME, RB.OPEN}
         THEN Fail(c, ERR.PROTOCOL, "invalid stream id in HEADERS frame")
         ELSE IF c.streams[fr.id].is_tunnel_req
         THEN Fail(c, ERR.PROTOCOL, "trailer cannot be used in a CONNECT request")
         ELSE IF ~fr.es THEN Fail(c, ERR.PROTOCOL, "trailing HEADERS frame MUST have END_STREAM flag set")
         ELSE IF ~fr.eh THEN prepare_for_continuation(c, fr)
         ELSE handle_trailing_headers(c, fr.id, fr)
    ELSE IF fr.id = DecodedPriority(fr).dependency THEN Fail(c, ERR.PROTOCOL, "stream cannot depend on itself")
    ELSE Let([c1 \in {IF Has(c, fr.id)
                   THEN IF "pri" \in DOMAIN fr THEN set_priority(c, fr.id, DecodedPriority(fr), TRUE) ELSE c
                   ELSE set_priority(h2o_http2_stream_open(c, fr.id), fr.id, DecodedPriority(fr), FALSE)} |->
             Let([c2 \in {h2o_http2_stream_prepare_for_request(c1, fr.id)} |->
             LET c3 == IF ~fr.es THEN [c2 EXCEPT !.streams[fr.id].buf = TRUE] ELSE c2
         IN IF fr.eh THEN handle_incoming_request(c3, fr.id, fr) ELSE prepare_for_continuation(c3, fr)])])

\* a variant that opens a stream for a PRIORITY frame whatever its stream id
handle_priority_frame_reopening(c, fr) ==
    IF fr.id = DecodedPriority(fr).dependency THEN Fail(c, ERR.PROTOCOL, "stream cannot depend on itself")
    ELSE IF Has(c, fr.id)
    THEN IF c.streams[fr.id].weight # 257 THEN Ok(set_priority(c, fr.id, DecodedPriority(fr), TRUE)) ELSE Ok(c)
    ELSE IF h2o_http2_stream_is_push(fr.id) THEN Ok(c)
    ELSE IF c.ns["priority"].open >= MaxStreamsForPriority
    THEN Fail(c, ERR.ENHANCE_YOUR_CALM, "too many streams in idle/closed state")
    ELSE Ok(set_priority(h2o_http2_stream_open(c, fr.id), fr.id, DecodedPriority(fr), FALSE))

\* a variant that tracks every stream a PRIORITY frame announces, however many there are
handle_priority_frame_unlimited(c, fr) ==
    IF fr.id = DecodedPriority(fr).dependency THEN Fail(c, ERR.PROTOCOL, "stream cannot depend on itself")
    ELSE IF Has(c, fr.id)
    THEN IF c.streams[fr.id].weight # 257 THEN Ok(set_priority(c, fr.id, DecodedPriority(fr), TRUE)) ELSE Ok(c)
    ELSE IF h2o_http2_stream_is_push(fr.id) THEN Ok(c)
    ELSE IF fr.id <= c.pull_max_open THEN Ok(c)
    ELSE Ok(set_priority(h2o_http2_stream_open(c, fr.id), fr.id, DecodedPriority(fr), FALSE))

handle_priority_frame(c, fr) ==
    IF fr.id = DecodedPriority(fr).dependency THEN Fail(c, ERR.PROTOCOL, "stream cannot depend on itself")
    ELSE IF Has(c, fr.id)
    THEN IF c.streams[fr.id].weight # 257 THEN Ok(set_priority(c, fr.id, DecodedPriority(fr), TRUE)) ELSE Ok(c)
    ELSE IF h2o_http2_stream_is_push(fr.id) THEN Ok(c)
    ELSE IF fr.id <= c.pull_max_open THEN Ok(c)
    ELSE IF c.ns["priority"].open >= MaxStreamsForPriority
    THEN Fail(c, ERR.ENHANCE_YOUR_CALM, "too many streams in idle/closed state")
    ELSE Ok(set_priority(h2o_http2_stream_open(c, fr.id), fr.id, DecodedPriority(fr), FALSE))

\* lines 66-69
is_idle_stream_id(c, stream_id) ==
    (IF h2o_http2_stream_is_push(stream_id) THEN c.push_max_open ELSE c.pull_max_open) < stream_id

\* a variant that answers the reset of a stream with a RST_STREAM of its own
handle_rst_stream_frame_answering(c, fr) ==
    IF is_idle_stream_id(c, fr.id) THEN Fail(c, ERR.PROTOCOL, "unexpected stream id in RST_STREAM frame")
    ELSE IF Has(c, fr.id) THEN Ok(h2o_http2_stream_reset(stream_send_error(c, fr.id, ERR.STREAM_CLOSED), fr.id))
    ELSE Ok(c)

handle_rst_stream_frame(c, fr) ==
    IF is_idle_stream_id(c, fr.id) THEN Fail(c, ERR.PROTOCOL, "unexpected stream id in RST_STREAM frame")
    ELSE IF Has(c, fr.id) THEN Ok(h2o_http2_stream_reset(c, fr.id))
    ELSE Ok(c)

(* -------------------- output windows: 453-464, 1066-1154 ---------------- *)
\* a variant that stops the window at INT32_MAX instead of refusing the increment
update_stream_output_window_capped(c, id, delta) ==
    LET cur == c.streams[id].output_window
    IN <<[c EXCEPT !.streams[id].output_window =
                       IF cur > 0 /\ delta > INT32_MAX - cur THEN INT32_MAX ELSE cur + delta], 0>>

\* the result is <<conn, return value>>. h2o_http2_window_update refuses, and leaves the window alone,
\* when the sum would exceed INT32_MAX; the program takes the sum in ssize_t, the comparison here
\* says the same without leaving 32 bits
update_stream_output_window(c, id, delta) ==
    LET s == c.streams[id]
        cur == s.output_window
    IN IF cur > 0 /\ delta > INT32_MAX - cur THEN <<c, -1>>
       ELSE LET c1 == [c EXCEPT !.streams[id].output_window = cur + delta]
            IN IF cur <= 0 /\ cur + delta > 0
                  /\ (h2o_http2_stream_has_pending_data(c, id) \/ s.state = SS.SEND_BODY_IS_FINAL)
               THEN <<h2o_http2_scheduler_activate(
                          IF h2o_linklist_is_linked(c1, id)
                          THEN Abort(c1, "update_stream_output_window: !is_linked(_link)") ELSE c1, id), 0>>
               ELSE <<c1, 0>>

\* the connection-level output window is not exhausted by the responses of this model
h2o_http2_conn_get_buffer_window(c) == 1

RECURSIVE update_stream_output_windows(_, _, _)
\* kh_foreach_value(conn->streams, stream, { update_stream_output_window(stream, delta); }): what the
\* call returns is dropped
update_stream_output_windows(c, todo, delta) ==
    IF todo = {} THEN c
    ELSE LET id == CHOOSE i \in todo : \A j \in todo : i <= j
         IN update_stream_output_windows(update_stream_output_window(c, id, delta)[1], todo \ {id}, delta)

resume_send(c) == IF h2o_http2_conn_get_buffer_window(c) <= 0 THEN c ELSE request_gathered_write(c)

\* m tells what the frame is: "ACK" (n is then the length of the payload), "INVALID" for a payload
\* that h2o_http2_update_peer_settings refuses, and otherwise n is the INITIAL_WINDOW_SIZE of the
\* payload, SIZE_MAX standing for a payload without that setting
handle_settings_frame(c, fr) ==
    IF fr.id # 0 THEN Fail(c, ERR.PROTOCOL, "invalid stream id in SETTINGS frame")
    ELSE IF fr.m = "ACK"
    THEN IF fr.n # 0 THEN Fail(c, ERR.FRAME_SIZE, "invalid SETTINGS frame (+ACK)") ELSE Ok(c)
    ELSE IF fr.m = "INVALID" THEN Fail(c, ERR.PROTOCOL, "invalid SETTINGS frame")
    ELSE LET prev_initial_window_size == c.peer_initial_window
             initial_window_size == IF fr.n = SIZE_MAX THEN prev_initial_window_size ELSE fr.n
         IN Let([c1 \in {h2o_http2_conn_request_write(
                             Encode([c EXCEPT !.peer_initial_window = initial_window_size],
                                    OutFrame("SETTINGS", 0, 0, "ACK")))} |->
            IF prev_initial_window_size # initial_window_size
            THEN Ok(resume_send(update_stream_output_windows(
                                    c1, DOMAIN c1.streams, initial_window_size - prev_initial_window_size)))
            ELSE Ok(c1)])

\* m tells what h2o_http2_decode_window_update_payload returns: "STREAMERR" and "CONNERR" for an
\* error at the level of the stream and of the connection, and otherwise n is the increment
handle_window_update_frame(c, fr) ==
    IF fr.m = "STREAMERR"
    THEN Ok(stream_send_error(IF Has(c, fr.id) THEN h2o_http2_stream_reset(c, fr.id) ELSE c, fr.id, ERR.PROTOCOL))
    ELSE IF fr.m = "CONNERR" THEN Fail(c, ERR.FRAME_SIZE, "invalid WINDOW_UPDATE frame")
    ELSE IF fr.id = 0
    THEN IF c.write_window > 0 /\ fr.n > INT32_MAX - c.write_window
         THEN Fail(c, ERR.FLOW_CONTROL, "flow control window overflow")
         ELSE Ok(resume_send([c EXCEPT !.write_window = @ + fr.n]))
    ELSE IF ~is_idle_stream_id(c, fr.id)
    THEN IF Has(c, fr.id)
         THEN Let([r \in {update_stream_output_window(c, fr.id, fr.n)} |->
              IF r[2] # 0
              THEN Ok(stream_send_error(h2o_http2_stream_reset(r[1], fr.id), fr.id, ERR.FLOW_CONTROL))
              ELSE Ok(resume_send(r[1]))])
         ELSE Ok(resume_send(c))
    ELSE Fail(c, ERR.PROTOCOL, "invalid stream id in WINDOW_UPDATE frame")

\* a variant that takes no notice of the peer's GOAWAY
handle_goaway_frame_unnoticed(c, fr) == Ok(c)

handle_goaway_frame(c, fr) == Ok([c EXCEPT !.push_max_open = 2147483646])

handle_ping_frame(c, fr) ==
    IF fr.m # "ACK" THEN Ok(h2o_http2_conn_request_write(Encode(c, OutFrame("PING", 0, 1, ""))))
    ELSE Ok(c)

handle_push_promise_frame(c, fr) == Fail(c, ERR.PROTOCOL, "received PUSH_PROMISE frame")

handle_invalid_continuation_frame(c, fr) == Fail(c, ERR.PROTOCOL, "received invalid CONTINUATION frame")

(* ------------------------- reading: 690-736, 1221-1336 ------------------- *)
\* a _read_expect function gives the number of units it consumed, or a negative error
expect_default(c) ==
    LET fr == Head(c.input) IN
        Let([r \in {CASE fr.t = "DATA" -> handle_data_frame(c, fr)
               [] fr.t = "HEADERS" -> handle_headers_frame(c, fr)
               [] fr.t = "PRIORITY" -> handle_priority_frame(c, fr)
               [] fr.t = "RST_STREAM" -> handle_rst_stream_frame(c, fr)
               [] fr.t = "SETTINGS" -> handle_settings_frame(c, fr)
               [] fr.t = "WINDOW_UPDATE" -> handle_window_update_frame(c, fr)
               [] fr.t = "PUSH_PROMISE" -> handle_push_promise_frame(c, fr)
               [] fr.t = "PING" -> handle_ping_frame(c, fr)
               [] fr.t = "GOAWAY" -> handle_goaway_frame(c, fr)
               [] fr.t = "CONTINUATION" -> handle_invalid_continuation_frame(c, fr)
               [] OTHER -> Ok(c)} |->
    IF r[2] # 0 THEN r ELSE <<r[1], 1, "">>])

expect_continuation_of_headers(c) ==
    LET fr == Head(c.input)
        id == fr.id
    IN IF fr.t # "CONTINUATION" THEN Fail(c, ERR.PROTOCOL, "expected CONTINUATION frame")
       ELSE IF ~Has(c, id) \/ c.streams[id].state \notin {SS.RECV_HEADERS, SS.RECV_BODY}
       THEN Fail(c, ERR.PROTOCOL, "unexpected stream id in CONTINUATION frame")
       ELSE IF fr.m # "HUGE"
       THEN IF fr.eh
            THEN Let([c1 \in {[c EXCEPT !.read_expect = "expect_default"]} |->
                     LET hdr == Head(c.headers_unparsed) IN
                     Let([r \in {IF c1.streams[id].state = SS.RECV_HEADERS THEN handle_incoming_request(c1, id, hdr)
                          ELSE handle_trailing_headers(c1, id, hdr)} |->
                     LET c2 == [r[1] EXCEPT !.headers_unparsed = <<>>]
                 IN IF r[2] # 0 THEN <<c2, r[2], r[3]>> ELSE <<c2, 1, "">>])])
            ELSE <<c, 1, "">>
       ELSE <<h2o_http2_stream_reset(stream_send_error(c, id, ERR.REFUSED_STREAM), id), 1, "">>

expect_preface(c) ==
    IF Len(c.input) < Len(CONNECTION_PREFACE) THEN Fail(c, ERR.INCOMPLETE, "")
    ELSE IF SubSeq(c.input, 1, Len(CONNECTION_PREFACE)) # CONNECTION_PREFACE
    THEN Fail(c, ERR.PROTOCOL_CLOSE_IMMEDIATELY, "")
    ELSE <<[h2o_http2_conn_request_write(Encode(c, SERVER_PREFACE)) EXCEPT !.read_expect = "expect_default"],
           Len(CONNECTION_PREFACE), "">>

read_expect(c) ==
    CASE c.read_expect = "expect_preface" -> expect_preface(c)
      [] c.read_expect = "expect_continuation_of_headers" -> expect_continuation_of_headers(c)
      [] OTHER -> expect_default(c)

RECURSIVE parse_input(_)
\* the result is <<conn, return value>>
parse_input(c) ==
    IF ~(c.state < CS.IS_CLOSING /\ c.input # <<>>) THEN <<c, 0>>
    ELSE Let([r \in {read_expect(c)} |->
             LET ret == r[2]
         IN IF ret = ERR.INCOMPLETE THEN <<r[1], 0>>
            ELSE IF ret < 0
            THEN close_connection(
                     IF ret # ERR.PROTOCOL_CLOSE_IMMEDIATELY
                     THEN enqueue_goaway(Ev(r[1], <<"connection_error", ret, r[3]>>), ret, r[3])
                     ELSE r[1])
            ELSE parse_input([r[1] EXCEPT !.input = SubSeq(@, ret + 1, Len(@))])])

(* ----------------------- writing: 1407-1541 ------------------------------ *)
\* h2o_http2_stream_send_pending_data of stream.c: the pending data go out as DATA frames; after
\* the final chunk the stream reaches END_STREAM
h2o_http2_stream_send_pending_data(c, id) ==
    IF c.streams[id].output_window <= 0 THEN c
    ELSE Let([is_final \in {c.streams[id].state = SS.SEND_BODY_IS_FINAL} |->
             Let([c1 \in {[Encode(c, OutFrame("DATA", id, IF is_final THEN 1 ELSE 0, "")) EXCEPT
                        !.streams[id].pending_data = FALSE]} |->
         IF is_final THEN h2o_http2_stream_set_state(c1, id, SS.END_STREAM) ELSE c1])])

emit_writereq_of_openref(c, id) ==
    LET s == c.streams[id] IN
        Let([c0 \in {IF s.pending_data \/ s.state >= SS.SEND_BODY_IS_FINAL THEN c
              ELSE Abort(c, "emit_writereq_of_openref: has_pending_data || state >= SEND_BODY_IS_FINAL")} |->
        Let([c1 \in {h2o_http2_stream_send_pending_data([c0 EXCEPT !.active = @ \ {id}], id)} |->
        LET s1 == c1.streams[id]
    IN IF s1.pending_data \/ s1.state = SS.SEND_BODY_IS_FINAL
       THEN IF s1.output_window <= 0 THEN c1 ELSE h2o_http2_scheduler_activate(c1, id)
       ELSE h2o_linklist_insert(c1, "proceed", id)])])

RECURSIVE h2o_http2_scheduler_run(_, _)
\* every active stream is served once, in the order of the stream ids
h2o_http2_scheduler_run(c, todo) ==
    IF todo = {} THEN c
    ELSE LET id == CHOOSE i \in todo : \A j \in todo : i <= j
         IN h2o_http2_scheduler_run(emit_writereq_of_openref(c, id), todo \ {id})

\* a variant that closes a HALF_CLOSED connection whatever streams are open
do_emit_writereq_closing_early(c) ==
    LET c0 == IF c.in_flight = 0 THEN c ELSE Abort(c, "do_emit_writereq: buf_in_flight == NULL") IN
        Let([c1 \in {IF c0.state < CS.IS_CLOSING /\ h2o_http2_conn_get_buffer_window(c0) > 0
              THEN h2o_http2_scheduler_run(c0, c0.active) ELSE c0} |->
        Let([c2 \in {IF c1.wbuf # 0
              THEN Ev([c1 EXCEPT !.in_flight = c1.wbuf, !.wbuf = 0, !.wbuf_goaway = FALSE, !.itimer = TRUE],
                      <<"h2o_socket_write", c1.wbuf, c1.wbuf_goaway>>)
              ELSE c1} |->
    IF c2.state = CS.OPEN THEN c2 ELSE close_connection(c2)[1]])])

do_emit_writereq(c) ==
    LET c0 == IF c.in_flight = 0 THEN c ELSE Abort(c, "do_emit_writereq: buf_in_flight == NULL") IN
        Let([c1 \in {IF c0.state < CS.IS_CLOSING /\ h2o_http2_conn_get_buffer_window(c0) > 0
              THEN h2o_http2_scheduler_run(c0, c0.active) ELSE c0} |->
        Let([c2 \in {IF c1.wbuf # 0
              THEN Ev([c1 EXCEPT !.in_flight = c1.wbuf, !.wbuf = 0, !.wbuf_goaway = FALSE, !.itimer = TRUE],
                      <<"h2o_socket_write", c1.wbuf, c1.wbuf_goaway>>)
              ELSE c1} |->
    CASE c2.state = CS.OPEN -> c2
         [] c2.state = CS.HALF_CLOSED ->
              IF c2.ns["pull"].open + c2.ns["push"].open # 0 THEN c2
              ELSE close_connection([c2 EXCEPT !.state = CS.IS_CLOSING])[1]
         [] OTHER -> close_connection(c2)[1]])])

emit_writereq(c) == do_emit_writereq([c EXCEPT !.wtimer = FALSE])

on_notify_write(c, err) ==
    LET c0 == [c EXCEPT !.notify = FALSE]
    IN IF err THEN close_connection_now(c0) ELSE do_emit_writereq(c0)

\* h2o_http2_stream_proceed of stream.c
h2o_http2_stream_proceed(c, id) ==
    IF c.streams[id].state = SS.END_STREAM
    THEN IF c.streams[id].body \in {RB.NONE, RB.CLOSE_DELIVERED} THEN h2o_http2_stream_close(c, id) ELSE c
    ELSE Let([c1 \in {IF ~c.streams[id].blocked_by_server THEN h2o_http2_stream_set_blocked_by_server(c, id, TRUE)
                   ELSE c} |->
         [c1 EXCEPT !.streams[id].sending = FALSE]])

RECURSIVE proceed_streams(_)
\* the while loop of on_write_complete over _write.streams_to_proceed
proceed_streams(c) ==
    IF c.to_proceed = <<>> THEN c
    ELSE LET id == Head(c.to_proceed) IN
             Let([c0 \in {IF c.streams[id].pending_data
                   THEN Abort(c, "on_write_complete: !h2o_http2_stream_has_pending_data") ELSE c} |->
         proceed_streams(h2o_http2_stream_proceed(h2o_linklist_unlink(c0, id), id))])

\* a variant that never resumes reading
on_write_complete_without_resuming(c, err) ==
    LET c0 == IF c.in_flight # 0 THEN c ELSE Abort(c, "on_write_complete: buf_in_flight != NULL")
    IN IF err THEN close_connection_now(c0)
       ELSE Let([c1 \in {[c0 EXCEPT !.in_flight = 0]} |->
                Let([c2 \in {IF c1.state < CS.IS_CLOSING THEN proceed_streams(c1) ELSE c1} |->
                Let([c4 \in {[update_idle_timeout(c2) EXCEPT !.wtimer = FALSE]} |->
            IF c4.state = CS.OPEN
               THEN IF c4.wbuf # 0 \/ c4.active # {} THEN [c4 EXCEPT !.notify = TRUE] ELSE c4
               ELSE do_emit_writereq(c4)])])])

on_write_complete(c, err) ==
    LET c0 == IF c.in_flight # 0 THEN c ELSE Abort(c, "on_write_complete: buf_in_flight != NULL")
    IN IF err THEN close_connection_now(c0)
       ELSE Let([c1 \in {[c0 EXCEPT !.in_flight = 0]} |->
                Let([c2 \in {IF c1.state < CS.IS_CLOSING THEN proceed_streams(c1) ELSE c1} |->
                Let([c3 \in {[update_idle_timeout(c2) EXCEPT !.wtimer = FALSE]} |->
                Let([c4 \in {IF c3.state < CS.IS_CLOSING /\ ~c3.reading /\ bytes_in_buf(c3) < SoftMaxFrames
                      THEN [c3 EXCEPT !.reading = TRUE] ELSE c3} |->
            IF c4.state = CS.OPEN
               THEN IF c4.wbuf # 0 \/ c4.active # {} THEN [c4 EXCEPT !.notify = TRUE] ELSE c4
               ELSE do_emit_writereq(c4)])])])])

\* lines 1301-1336; data is what the socket appended to its input buffer before the callback
on_read(c, data, err) ==
    IF err THEN close_connection([c EXCEPT !.reading = FALSE])[1]
    ELSE LET RECURSIVE replay(_)
             \* lines 1316-1323: h2o_replay_request hands the request to its handler again
             replay(d) ==
                 IF d.early = <<>> THEN d
                 ELSE LET id == Head(d.early) IN
                          Let([d1 \in {h2o_linklist_unlink(d, id)} |->
                          Let([d2 \in {IF ~d1.streams[id].blocked_by_server
                                THEN h2o_http2_stream_set_blocked_by_server(d1, id, TRUE) ELSE d1} |->
                      replay(Ev([d2 EXCEPT !.streams[id].process_called = TRUE],
                                <<"h2o_replay_request", id>>))])])
             c0 == IF c.early # <<>> /\ ~c.early_data THEN replay(c) ELSE c
         IN
         Let([r \in {parse_input([c0 EXCEPT !.input = @ \o data])} |->
         IF r[2] # 0 THEN r[1]
            ELSE Let([c1 \in {update_idle_timeout(r[1])} |->
                 IF c1.wtimer THEN do_emit_writereq([c1 EXCEPT !.wtimer = FALSE]) ELSE c1])])

(* ------------------------- server push: 1771-1860 ------------------------ *)
\* h2o_http2_stream_send_push_promise of stream.c
h2o_http2_stream_send_push_promise(c, id) ==
    h2o_http2_conn_request_write(
        Encode([c EXCEPT !.streams[id].promise_sent = TRUE], OutFrame("PUSH_PROMISE", id, 0, "")))

\* lines 1771-1860, for a push that is not critical: the node of the pushed stream is opened below
\* the node of the source stream, with weight 16
push_path(c, src) ==
    IF h2o_http2_stream_is_push(src) THEN c
    ELSE IF c.ns["push"].open >= H2O_HTTP2_SETTINGS_HOST_MAX_CONCURRENT_STREAMS THEN c
    ELSE IF c.state >= CS.IS_CLOSING THEN c
    ELSE IF c.push_max_open >= 2147483632 THEN c
    ELSE IF ~(c.pending = <<>> /\ can_run_requests(c)) THEN c
    ELSE LET id == c.push_max_open + 2 IN
             Let([c1 \in {h2o_http2_scheduler_open(h2o_http2_stream_open(c, id), id, src, 16, FALSE)} |->
             Let([c2 \in {h2o_http2_stream_prepare_for_request(c1, id)} |->
             Let([c3 \in {execute_or_enqueue_request(c2, id)} |->
         IF Has(c3, id) /\ ~c3.streams[id].promise_sent /\ c3.streams[id].state # SS.END_STREAM
            THEN h2o_http2_stream_send_push_promise(c3, id) ELSE c3])])])

(* ============================ the state machine ========================== *)
\* conn: the h2o_http2_conn_t with its streams, socket and timers; client: the number of input
\* units the client has sent so far
VARIABLES conn, client
vars == <<conn, client>>

\* the decisions the application takes inside the callbacks of one handler run
Oracles == [can_stream : BOOLEAN, write_req_ok : BOOLEAN, install_write_req : BOOLEAN]
\* the decisions a handler run can consult when no first DATA frame is handled
OraclesNoData == {o \in Oracles : ~o.can_stream}
OraclesDispatch == {o \in OraclesNoData : o.write_req_ok}

Begin(o) == [conn EXCEPT !.ev = <<>>, !.oracle = o]

\* input that is left unparsed when the connection starts closing is never looked at again: only
\* its length is kept
Unparsed == InUnit("UNPARSED", 0, FALSE, FALSE, "", 0)
\* a failed assertion ends the process: what is kept of it is the assertion, the events of the
\* handler up to it, and the connection state and stream ids the handler started from
Commit(c) ==
    IF c.aborted # ""
    THEN [create_conn(conn.graceful_shutdown_timeout) EXCEPT
              !.aborted = c.aborted, !.ev = c.ev, !.state = conn.state, !.goaway = conn.goaway,
              !.pull_max_open = conn.pull_max_open, !.push_max_open = conn.push_max_open,
              !.itimer = FALSE, !.reading = FALSE]
    ELSE [c EXCEPT !.oracle = NoOracle,
                   !.input = IF c.state = CS.IS_CLOSING THEN [i \in DOMAIN c.input |-> Unparsed]
                             ELSE c.input]

Running == ~conn.destroyed /\ conn.aborted = ""

Ping == InUnit("PING", 0, FALSE, FALSE, "", 0)

\* the stream ids the client uses
ClientIds == {1}

\* what the client may send: the frames of requests, malformed requests, frames that are connection
\* errors, and the halves of the preface
Frames ==
    {InUnit("HEADERS", id, es, eh, m, SIZE_MAX) : id \in ClientIds, es \in BOOLEAN, eh \in BOOLEAN,
                                                   m \in {"GET", "CONNECT"}}
    \cup {InUnit("HEADERS", id, TRUE, TRUE, m, SIZE_MAX) : id \in ClientIds, m \in {"BAD", "HPACKERR"}}
    \cup {InUnit("HEADERS", 2, TRUE, TRUE, "GET", SIZE_MAX)}
    \cup {InUnit("DATA", id, es, FALSE, "", 1) : id \in ClientIds, es \in BOOLEAN}
    \cup {InUnit("DATA", id, TRUE, FALSE, "", 0) : id \in ClientIds}
    \cup {InUnit("CONTINUATION", id, FALSE, eh, "", 0) : id \in ClientIds, eh \in BOOLEAN}
    \cup {InUnit("CONTINUATION", id, FALSE, TRUE, "HUGE", 0) : id \in ClientIds}
    \cup {InUnit("PRIORITY", id, FALSE, FALSE, "", h2o_http2_default_priority) : id \in ClientIds}
    \cup {InUnit("RST_STREAM", id, FALSE, FALSE, "", 0) : id \in ClientIds}
    \cup {InUnit(t, 0, FALSE, FALSE, "", 0) : t \in {"GOAWAY", "PUSH_PROMISE", "PREFACE_A", "PREFACE_B"}}
    \cup {Ping}

ReadData ==
    {<<f>> : f \in Frames} \cup {<<f, Ping>> : f \in Frames}
    \cup {CONNECTION_PREFACE, CONNECTION_PREFACE \o <<Ping>>}

Init == \E gst \in {0, GracefulTimeout} : conn = create_conn(gst) /\ client = 0

OnReadOf(D, max, O) ==
    /\ Running /\ conn.reading
    /\ \E data \in (IF conn.state < CS.IS_CLOSING THEN D ELSE {<<Ping>>}) :
           /\ Len(data) <= MaxUnitsPerRead
           /\ Len(conn.input) + Len(data) <= MaxInputBuffer
           /\ client + Len(data) <= max
           /\ client' = client + Len(data)
           /\ \E o \in (IF data[1].t = "DATA" THEN O ELSE {o \in O : ~o.can_stream}) :
                  conn' = Commit(on_read(Begin(o), data, FALSE))

OnRead == OnReadOf(ReadData, MaxClientUnits, Oracles)

OnReadError ==
    /\ Running /\ conn.reading
    /\ conn' = Commit(on_read(Begin(NoOracle), <<>>, TRUE))
    /\ UNCHANGED client

OnWriteCompleteOf(errs, O) ==
    /\ Running /\ conn.in_flight # 0
    /\ \E err \in errs, o \in O : conn' = Commit(on_write_complete(Begin(o), err))
    /\ UNCHANGED client

OnWriteComplete == OnWriteCompleteOf(BOOLEAN, OraclesDispatch)

OnNotifyWriteOf(errs) ==
    /\ Running /\ conn.notify
    /\ \E err \in errs : conn' = Commit(on_notify_write(Begin(NoOracle), err))
    /\ UNCHANGED client

OnNotifyWrite == OnNotifyWriteOf(BOOLEAN)

EmitWritereq ==
    /\ Running /\ conn.wtimer
    /\ conn' = Commit(emit_writereq(Begin(NoOracle)))
    /\ UNCHANGED client

OnIdleTimeout ==
    /\ Running /\ conn.itimer
    /\ conn' = Commit(on_idle_timeout(Begin(NoOracle)))
    /\ UNCHANGED client

GracefulShutdownTimeout ==
    /\ Running /\ conn.gtimer
    /\ conn' = Commit(IF conn.gcb = "graceful_shutdown_resend_goaway"
                      THEN graceful_shutdown_resend_goaway(Begin(NoOracle))
                      ELSE graceful_shutdown_close_straggler(Begin(NoOracle)))
    /\ UNCHANGED client

\* request_shutdown or close_idle_connection: the context calls one of them, once, on a connection
\* that h2o_conn_set_state has not yet moved to the shutdown state
RequestShutdown ==
    /\ Running /\ conn.gcb = "NULL"
    /\ conn' = Commit(initiate_graceful_shutdown(Begin(NoOracle)))
    /\ UNCHANGED client

AppSendOf(finals) ==
    /\ Running
    /\ \E id \in DOMAIN conn.streams, is_final \in finals, has_data \in BOOLEAN :
           /\ conn.streams[id].process_called /\ ~conn.streams[id].sending
           /\ conn.streams[id].state \notin {SS.IDLE, SS.RECV_HEADERS, SS.SEND_BODY_IS_FINAL}
           /\ conn' = Commit(finalostream_send(Begin(NoOracle), id, is_final, has_data))
    /\ UNCHANGED client

AppSend == AppSendOf(BOOLEAN)

AppProceedRequest ==
    /\ Running
    /\ \E id \in DOMAIN conn.streams, errstr \in BOOLEAN, o \in OraclesNoData :
           /\ conn.streams[id].process_called /\ conn.streams[id].streamed /\ conn.streams[id].proceed_req
           /\ conn.streams[id].entity \/ errstr
           /\ conn' = Commit(proceed_request(Begin(o), id, errstr))
    /\ UNCHANGED client

AppPushPath ==
    /\ Running
    /\ \E src \in DOMAIN conn.streams :
           /\ conn.streams[src].process_called /\ ~conn.streams[src].sending
           /\ conn.streams[src].state < SS.SEND_BODY_IS_FINAL
           /\ conn.push_max_open <= MaxStreamId - 2
           /\ conn' = Commit(push_path(Begin(NoOracle), src))
    /\ UNCHANGED client

Next ==
    \/ OnRead
    \/ OnReadError
    \/ OnWriteComplete
    \/ OnNotifyWrite
    \/ EmitWritereq
    \/ OnIdleTimeout
    \/ GracefulShutdownTimeout
    \/ RequestShutdown
    \/ AppSend
    \/ AppProceedRequest

Spec == Init /\ [][Next]_vars

(* ---- the graceful shutdown of a connection that serves requests ---- *)
\* a request with or without a body on the client's stream, and a PING
ShutdownFrames ==
    {InUnit("HEADERS", id, es, TRUE, "GET", SIZE_MAX) : id \in ClientIds, es \in BOOLEAN}
    \cup {InUnit("DATA", id, TRUE, FALSE, "", 1) : id \in ClientIds}
    \cup {Ping}

\* the last stage of the shutdown is configured
InitShutdown == conn = create_conn(GracefulTimeout) /\ client = 0

OnReadDuringShutdown ==
    OnReadOf({<<f>> : f \in ShutdownFrames} \cup {CONNECTION_PREFACE}, MaxClientUnits, {NoOracle})

OnWriteCompleteDuringShutdown == OnWriteCompleteOf(BOOLEAN, {NoOracle})

NextShutdown ==
    \/ OnReadDuringShutdown
    \/ OnWriteCompleteDuringShutdown
    \/ OnNotifyWrite
    \/ EmitWritereq
    \/ GracefulShutdownTimeout
    \/ RequestShutdown
    \/ AppSend

\* the event loop runs the callback of a timer that has expired, and the socket reports the end of
\* every write it was handed (its completion, or its failure) and calls back when it is writable
\* after h2o_socket_notify_write: weak fairness of the four callbacks.  WF_vars(A) is []<>~ENABLED <<A>>_vars \/ []<><<A>>_vars; each of these callbacks
\* changes the connection whenever it runs, so that ENABLED <<A>>_vars is the guard of A, which is
\* written out here
GracefulTimerPending == Running /\ conn.gtimer
WriteTimerPending == Running /\ conn.wtimer
WritePending == Running /\ conn.in_flight # 0

SpecShutdown ==
    /\ InitShutdown /\ [][NextShutdown]_vars
    /\ ([]<>~GracefulTimerPending \/ []<><<GracefulShutdownTimeout>>_vars)
    /\ ([]<>~WriteTimerPending \/ []<><<EmitWritereq>>_vars)
    /\ ([]<>~WritePending \/ []<><<OnWriteCompleteDuringShutdown>>_vars)
    /\ ([]<>~(Running /\ conn.notify) \/ []<><<OnNotifyWrite>>_vars)

(* ---- shutdown requests at any time ---- *)
\* request_shutdown and close_idle_connection are entries of the callback table of the connection;
\* connection.c tests nothing before initiate_graceful_shutdown runs, so the context may call them
\* on any living connection, and more than once
SpecShutdownCalls ==
    /\ InitShutdown
    /\ [][\/ OnReadDuringShutdown \/ OnWriteCompleteDuringShutdown \/ OnNotifyWrite \/ EmitWritereq
          \/ GracefulShutdownTimeout \/ AppSend
          \/ (Running /\ conn' = Commit(initiate_graceful_shutdown(Begin(NoOracle))) /\ UNCHANGED client)]_vars

(* ---- the admission of requests: three client streams, no errors, no shutdown ---- *)
\* the frames of well-formed requests on every stream id of the client
RequestFrames ==
    {InUnit("HEADERS", id, es, TRUE, "GET", SIZE_MAX) : id \in PullIds, es \in BOOLEAN}
    \cup {InUnit("HEADERS", id, FALSE, TRUE, "CONNECT", SIZE_MAX) : id \in PullIds}
    \cup {InUnit("DATA", id, es, FALSE, "", 1) : id \in PullIds, es \in BOOLEAN}

RequestData == {<<f>> : f \in RequestFrames} \cup {CONNECTION_PREFACE}

\* the connection as h2o_http2_accept leaves it, the last stage of the shutdown configured
InitAdmission == conn = create_conn(GracefulTimeout) /\ client = 0

\* the handlers of these requests do not install write_req.cb
OnReadRequests ==
    OnReadOf(RequestData, MaxRequestUnits, {o \in Oracles : o.write_req_ok /\ ~o.install_write_req})

OnWriteCompleted == OnWriteCompleteOf({FALSE}, {NoOracle})

OnNotifiedWrite == OnNotifyWriteOf({FALSE})

\* the application answers a request with one call
AppRespond == AppSendOf({TRUE})

NextAdmission ==
    \/ OnReadRequests
    \/ OnWriteCompleted
    \/ OnNotifiedWrite
    \/ EmitWritereq
    \/ AppRespond

SpecAdmission == InitAdmission /\ [][NextAdmission]_vars

(* ---- the body of a request: one client stream, with or without content-length ---- *)
\* a request that is complete or announces a body, the frames of the body, and a reset
BodyFrames ==
    {InUnit("HEADERS", id, es, TRUE, m, cl) : id \in ClientIds, es \in BOOLEAN, m \in {"GET", "CONNECT"},
                                              cl \in {SIZE_MAX, 1}}
    \cup {InUnit("DATA", id, es, FALSE, "", n) : id \in ClientIds, es \in BOOLEAN, n \in {0, 1}}
    \cup {InUnit("RST_STREAM", id, FALSE, FALSE, "", 0) : id \in ClientIds}

OnReadBody == OnReadOf({<<f>> : f \in BodyFrames} \cup {CONNECTION_PREFACE}, MaxBodyUnits, Oracles)

NextBody ==
    \/ OnReadBody
    \/ OnWriteComplete
    \/ OnNotifyWrite
    \/ EmitWritereq
    \/ OnIdleTimeout
    \/ AppSend
    \/ AppProceedRequest

SpecBody == InitAdmission /\ [][NextBody]_vars

(* ---- header blocks in several frames: two client streams ---- *)
HeaderIds == {1, 3}

\* requests whose header block may go on in CONTINUATION frames, CONTINUATION frames, the end of
\* a request body, and a PING
HeaderFrames ==
    {InUnit("HEADERS", id, es, eh, "GET", SIZE_MAX) : id \in HeaderIds, es \in BOOLEAN, eh \in BOOLEAN}
    \cup {InUnit("CONTINUATION", id, FALSE, eh, "", 0) : id \in HeaderIds, eh \in BOOLEAN}
    \cup {InUnit("DATA", id, TRUE, FALSE, "", 1) : id \in HeaderIds}
    \cup {Ping}

OnReadHeaders ==
    OnReadOf({<<f>> : f \in HeaderFrames} \cup {CONNECTION_PREFACE}, MaxHeaderUnits, {NoOracle})

NextHeaders ==
    \/ OnReadHeaders
    \/ OnWriteCompleted
    \/ OnNotifiedWrite
    \/ EmitWritereq
    \/ AppRespond

SpecHeaders == InitAdmission /\ [][NextHeaders]_vars

(* ---- the output windows: two client streams, SETTINGS and WINDOW_UPDATE ---- *)
\* complete requests on the streams 1 and 3; SETTINGS that lower and raise INITIAL_WINDOW_SIZE,
\* that leave it alone, acknowledgements, and SETTINGS that are refused; WINDOW_UPDATE for the
\* connection, for the two streams and for the stream 5 that is never opened, by one and by
\* INT32_MAX, and WINDOW_UPDATE that the decoder refuses
FlowFrames ==
    {InUnit("HEADERS", id, TRUE, TRUE, "GET", SIZE_MAX) : id \in {1, 3}}
    \cup {InUnit("SETTINGS", 0, FALSE, FALSE, "", n) : n \in {0, INT32_MAX, SIZE_MAX}}
    \cup {InUnit("SETTINGS", 0, FALSE, FALSE, "ACK", n) : n \in {0, 1}}
    \cup {InUnit("SETTINGS", 1, FALSE, FALSE, "", 0), InUnit("SETTINGS", 0, FALSE, FALSE, "INVALID", 0)}
    \cup {InUnit("WINDOW_UPDATE", id, FALSE, FALSE, "", n) : id \in {0, 1, 3, 5}, n \in {1, INT32_MAX}}
    \cup {InUnit("WINDOW_UPDATE", id, FALSE, FALSE, "STREAMERR", 0) : id \in {1, 5}}
    \cup {InUnit("WINDOW_UPDATE", 0, FALSE, FALSE, "CONNERR", 0)}

SpecFlow ==
    /\ InitAdmission
    /\ [][\/ OnReadOf({<<f>> : f \in FlowFrames} \cup {CONNECTION_PREFACE}, MaxFlowUnits, {NoOracle})
          \/ OnWriteCompleted
          \/ OnNotifiedWrite
          \/ EmitWritereq
          \/ AppRespond]_vars

(* ---- the input window of one stream: request bodies in padded DATA frames ---- *)
\* a request on stream 1 whose body comes in DATA frames with and without payload and padding; the
\* application buffers the body or takes it in streaming mode and proceeds
SpecWindow ==
    /\ InitAdmission
    /\ [][\/ OnReadOf({<<f>> : f \in {InUnit("DATA", 1, es, FALSE, m, n) :
                                           es \in BOOLEAN, m \in {"", "PADDED"}, n \in {0, 1}}
                                      \cup {InUnit("HEADERS", 1, FALSE, TRUE, "GET", SIZE_MAX)}}
                        \cup {CONNECTION_PREFACE}, MaxWindowUnits, Oracles)
          \/ OnWriteComplete \/ OnNotifyWrite \/ EmitWritereq \/ AppSend \/ AppProceedRequest]_vars

(* ---- priorities: two client streams that PRIORITY frames may announce ---- *)
\* PRIORITY with the default and with another weight for the streams 1 and 3 and for the push
\* stream 2, which never exists, and complete requests on the streams 1 and 3
SpecPriority ==
    /\ InitAdmission
    /\ [][\/ OnReadOf({<<f>> : f \in {InUnit("PRIORITY", id, FALSE, FALSE, "", w) :
                                           id \in {1, 2, 3}, w \in {h2o_http2_default_priority, 32}}
                                      \cup {InUnit("HEADERS", id, TRUE, TRUE, "GET", SIZE_MAX) : id \in {1, 3}}}
                        \cup {CONNECTION_PREFACE}, MaxPriorityUnits, {NoOracle})
          \/ OnWriteCompleted \/ OnNotifiedWrite \/ EmitWritereq \/ AppRespond]_vars

(* ---- the idle timer: requests on two streams, with and without TLS early data ---- *)
\* the connection is accepted while the TLS handshake is in its early-data phase or after it; the
\* handshake completes at some time; complete requests on the streams 1 and 3, PING, and a HEADERS
\* frame on the push stream id 2 (a connection error); the socket may report a read error; the
\* idle timeout (the write timeout while a write is in flight) fires whenever the timer is linked;
\* the application may answer a request with 425 (Too Early): finalostream_send of stream.c
\* unblocks the stream and registers it for replay, and the request is processed again after the
\* handshake, or at once (the deferred replay) when the handshake is already complete
SpecIdle ==
    /\ client = 0
    /\ \E e \in BOOLEAN : conn = [create_conn(GracefulTimeout) EXCEPT !.early_data = e]
    /\ [][\/ OnReadOf({<<f>> : f \in {InUnit("HEADERS", id, TRUE, TRUE, "GET", SIZE_MAX) : id \in {1, 2, 3}}
                                      \cup {Ping}}
                        \cup {CONNECTION_PREFACE}, MaxIdleUnits, {NoOracle})
          \/ OnReadError \/ OnWriteCompleted \/ OnNotifiedWrite \/ EmitWritereq \/ AppRespond \/ OnIdleTimeout
          \/ (Running /\ conn.early_data /\ conn' = [conn EXCEPT !.early_data = FALSE] /\ UNCHANGED client)
          \/ (/\ Running
              /\ \E id \in DOMAIN conn.streams :
                     /\ conn.streams[id].process_called /\ ~conn.streams[id].sending
                     /\ conn.streams[id].state \in {SS.REQ_PENDING, SS.SEND_HEADERS}
                     /\ LET c == Begin(NoOracle)
                            u == IF c.streams[id].blocked_by_server
                                 THEN h2o_http2_stream_set_blocked_by_server(c, id, FALSE) ELSE c
                        IN conn' = Commit(h2o_http2_conn_register_for_replay(
                                       [u EXCEPT !.streams[id].process_called = ~c.early_data], id))
              /\ UNCHANGED client)]_vars

(* ---- the list link of a stream: queued, replayed and flow-controlled responses ---- *)
\* complete requests on the streams 1 and 3, of which one is served at a time; SETTINGS that
\* lower INITIAL_WINDOW_SIZE to zero and WINDOW_UPDATE by one for the two streams; the connection
\* is accepted in the early-data phase of the TLS handshake or after it, and the handshake
\* completes at some time; the application responds, or answers with 425 (Too Early):
\* finalostream_send of stream.c unblocks the stream and registers it for replay, and the request
\* is processed again after the handshake, or at once when the handshake is already complete
SpecLinks ==
    /\ client = 0
    /\ \E e \in BOOLEAN : conn = [create_conn(GracefulTimeout) EXCEPT !.early_data = e]
    /\ [][\/ OnReadOf({<<f>> : f \in {InUnit("HEADERS", id, TRUE, TRUE, "GET", SIZE_MAX) : id \in {1, 3}}
                                      \cup {InUnit("SETTINGS", 0, FALSE, FALSE, "", 0)}
                                      \cup {InUnit("WINDOW_UPDATE", id, FALSE, FALSE, "", 1) : id \in {1, 3}}}
                        \cup {CONNECTION_PREFACE}, MaxLinkUnits, {NoOracle})
          \/ OnWriteCompleted \/ OnNotifiedWrite \/ EmitWritereq \/ AppSend \/ OnIdleTimeout
          \/ (Running /\ conn.early_data /\ conn' = [conn EXCEPT !.early_data = FALSE] /\ UNCHANGED client)
          \/ (/\ Running
              /\ \E id \in DOMAIN conn.streams :
                     /\ conn.streams[id].process_called /\ ~conn.streams[id].sending
                     /\ conn.streams[id].state \in {SS.REQ_PENDING, SS.SEND_HEADERS}
                     /\ LET c == Begin(NoOracle)
                            u == IF c.streams[id].blocked_by_server
                                 THEN h2o_http2_stream_set_blocked_by_server(c, id, FALSE) ELSE c
                        IN conn' = Commit(h2o_http2_conn_register_for_replay(
                                       [u EXCEPT !.streams[id].process_called = ~c.early_data], id))
              /\ UNCHANGED client)]_vars

(* ---- the dependency tree: PRIORITY frames with dependencies ---- *)
\* PRIORITY frames for the streams 1 and 3 that depend on the root, on each other or on
\* themselves, with weight 16 or 32, exclusive or not, and complete requests on the two streams
SpecDependency ==
    /\ InitAdmission
    /\ [][\/ OnReadOf({<<f>> : f \in {InUnit("PRIORITY", id, FALSE, FALSE, "", w)
                                           @@ [pri |-> [dependency |-> d, weight |-> w, exclusive |-> x]] :
                                           id \in {1, 3}, d \in {0, 1, 3}, w \in {h2o_http2_default_priority, 32},
                                           x \in BOOLEAN}
                                      \cup {InUnit("HEADERS", id, TRUE, TRUE, "GET", SIZE_MAX) : id \in {1, 3}}}
                        \cup {CONNECTION_PREFACE}, MaxPriorityUnits, {NoOracle})
          \/ OnWriteCompleted \/ OnNotifiedWrite \/ EmitWritereq \/ AppRespond]_vars

(* ---- the peer's GOAWAY: requests on two streams, pushes, GOAWAY frames ---- *)
\* a request with a body on stream 1, which the application may take in streaming mode, a
\* complete request on stream 3, and GOAWAY frames with last-stream-id 0 or 1; the application
\* pushes from a request it is working on, before and after a GOAWAY, and responds
SpecGoaway ==
    /\ InitAdmission
    /\ [][\/ OnReadOf({<<f>> : f \in {InUnit("HEADERS", 1, FALSE, TRUE, "GET", SIZE_MAX),
                                       InUnit("HEADERS", 3, TRUE, TRUE, "GET", SIZE_MAX)}
                                      \cup {InUnit("DATA", 1, es, FALSE, "", 1) : es \in BOOLEAN}
                                      \cup {InUnit("GOAWAY", 0, FALSE, FALSE, "", n) : n \in {0, 1}}}
                        \cup {CONNECTION_PREFACE}, MaxGoawayUnits,
                        {o \in Oracles : o.write_req_ok /\ ~o.install_write_req})
          \/ OnWriteCompleted \/ OnNotifiedWrite \/ EmitWritereq \/ AppRespond
          \/ (/\ Running
              /\ \E src \in DOMAIN conn.streams :
                     /\ conn.streams[src].process_called /\ ~conn.streams[src].sending
                     /\ conn.streams[src].state < SS.SEND_BODY_IS_FINAL
                     /\ conn.push_max_open <= MaxStreamId - 2 \/ conn.push_max_open >= 2147483632
                     /\ conn' = Commit(push_path(Begin(NoOracle), src))
              /\ UNCHANGED client)]_vars

(* ================================ properties ============================= *)
\* the events of kind k that the last handler run recorded
Events(c, k) == {c.ev[i] : i \in {j \in DOMAIN c.ev : c.ev[j][1] = k}}
\* the frames the last handler run appended to _write.buf
Encoded(c) == {e[2] : e \in Events(c, "encode")}
\* what a handler run of on_read makes of one frame
OnReadFrame(f, o) == Commit(on_read(Begin(o), <<f>>, FALSE))

(* ---- C1 ---- *)
\* C1: once a GOAWAY with last-stream-id L = pull_stream_ids.max_open has been enqueued (the
\* connection is HALF_CLOSED or later), h2o_process_request is never invoked for a client-initiated
\* stream whose id is greater than L.
C1_NoRequestAdmittedPastGoaway ==
    conn.goaway # -1 =>
        \A e \in Events(conn, "h2o_process_request") :
            h2o_http2_stream_is_push(e[2]) \/ e[2] <= conn.goaway

(* ---- C2 ---- *)
\* a complete request without a body in one HEADERS frame
CompleteRequest(id) == InUnit("HEADERS", id, TRUE, TRUE, "GET", SIZE_MAX)

\* the connection has sent GOAWAY(pull_stream_ids.max_open) and reads frames; stream id is new (it
\* is unknown, or a PRIORITY frame has opened it)
NewAfterGoaway(id) ==
    /\ Running /\ conn.reading /\ conn.state = CS.HALF_CLOSED
    /\ conn.read_expect = "expect_default" /\ conn.input = <<>>
    /\ ~h2o_http2_stream_is_push(id) /\ id > conn.pull_max_open
    /\ Has(conn, id) => conn.streams[id].state = SS.IDLE

C3_GracefulShutdownStageOne ==
    (Running /\ conn.gcb = "NULL") =>
        LET c == Commit(initiate_graceful_shutdown(Begin(NoOracle)))
        IN /\ c.aborted = "" /\ ~c.destroyed
           /\ c.gtimer /\ c.gcb = "graceful_shutdown_resend_goaway"
           /\ c.state = conn.state /\ c.goaway = conn.goaway
           /\ IF conn.state = CS.OPEN
              THEN /\ c.ev = << <<"encode", OutFrame("GOAWAY", INT32_MAX, -ERR.NONE, "graceful shutdown")>> >>
                   /\ c.wbuf = Size(conn.wbuf + 1) /\ c.wbuf_goaway
                   /\ h2o_socket_is_writing(c) \/ c.wtimer
              ELSE c.ev = <<>> /\ c.wbuf = conn.wbuf

\* the first stage has run on an OPEN connection
C3_Witness ==
    /\ conn.state = CS.OPEN /\ conn.gtimer /\ conn.gcb = "graceful_shutdown_resend_goaway"
    /\ OutFrame("GOAWAY", INT32_MAX, 0, "graceful shutdown") \in Encoded(conn)

(* ---- C4 ---- *)
\* C4: when the timer of the first stage fires on a connection that is still OPEN,
\* GOAWAY(pull_stream_ids.max_open, NO_ERROR) is enqueued and the connection becomes HALF_CLOSED,
\* and the timer is armed again, with graceful_shutdown_close_straggler, if and only if
\* graceful_shutdown_timeout > 0; on a connection that is no longer OPEN nothing is enqueued and
\* no timer is armed.
C4_GracefulShutdownStageTwo ==
    (Running /\ conn.gtimer /\ conn.gcb = "graceful_shutdown_resend_goaway") =>
        LET c == Commit(graceful_shutdown_resend_goaway(Begin(NoOracle)))
        IN /\ c.aborted = "" /\ ~c.destroyed
           /\ IF conn.state = CS.OPEN
              THEN /\ c.ev = << <<"encode", OutFrame("GOAWAY", conn.pull_max_open, -ERR.NONE, "")>> >>
                   /\ c.state = CS.HALF_CLOSED /\ c.goaway = conn.pull_max_open
                   /\ c.wbuf_goaway
                   /\ c.gtimer <=> conn.graceful_shutdown_timeout > 0
                   /\ c.gtimer => c.gcb = "graceful_shutdown_close_straggler"
              ELSE c.ev = <<>> /\ c.state = conn.state /\ ~c.gtimer /\ c.wbuf = conn.wbuf

\* the second stage has run with the last stage configured
C4_Witness ==
    /\ conn.state = CS.HALF_CLOSED /\ conn.gtimer /\ conn.gcb = "graceful_shutdown_close_straggler"
    /\ OutFrame("GOAWAY", conn.pull_max_open, 0, "") \in Encoded(conn)

(* ---- C5 ---- *)
\* the timer of the last stage has fired
StragglerTimerFired == conn.gcb = "graceful_shutdown_close_straggler" /\ ~conn.gtimer

\* C5: when the timer of the last stage fires, the connection is closed at once (close_connection_now
\* runs) if no write is in flight and the write timer is not armed, and otherwise it is closing and
\* left to the write callbacks; and once that timer has fired the connection is eventually
\* destroyed, whether or not streams are still open.
C5_StragglersAreClosed ==
    /\ [](GracefulTimerPending /\ conn.gcb = "graceful_shutdown_close_straggler" =>
             LET c == Commit(graceful_shutdown_close_straggler(Begin(NoOracle)))
             IN /\ c.aborted = "" /\ c.state = CS.IS_CLOSING /\ ~c.gtimer
                /\ c.destroyed <=> (conn.in_flight = 0 /\ ~conn.wtimer)
                /\ c.destroyed <=> Events(c, "close_connection_now") # {})
    /\ (StragglerTimerFired ~> conn.destroyed)

\* the last timer has fired while a stream was open and a write was pending: the connection is
\* closing and not yet destroyed
C5_Witness ==
    /\ StragglerTimerFired /\ Running /\ conn.state = CS.IS_CLOSING
    /\ DOMAIN conn.streams # {}
    /\ conn.in_flight # 0 \/ conn.wtimer

(* ---- C6 ---- *)
\* C6: a handler run of on_read in which a frame handler returns a connection error enqueues a
\* GOAWAY with the error code and the debug string, leaves the connection IS_CLOSING, and does not
\* destroy the connection while that GOAWAY is still in _write.buf, waiting to be handed to the
\* socket.
C6_GoawayOfConnectionErrorIsWritten ==
    \A e \in Events(conn, "connection_error") :
        /\ \E f \in Encoded(conn) : f.t = "GOAWAY" /\ f.code = -e[2] /\ f.dbg = e[3]
        /\ conn.state = CS.IS_CLOSING
        /\ \A x \in Events(conn, "close_connection_now") : ~x[3]

(* ---- C7 ---- *)
\* C7: as long as the client preface has not been read, nothing is appended to _write.buf and
\* nothing is handed to the socket.
C7_NothingIsWrittenBeforeThePreface ==
    (conn.aborted = "" /\ conn.read_expect = "expect_preface") =>
        /\ Encoded(conn) = {} /\ Events(conn, "h2o_socket_write") = {}
        /\ conn.wbuf = 0 /\ conn.in_flight = 0

(* ---- C8 ---- *)
\* C8: max_open of the pull ids and of the push ids never decreases, and a handler run prepares a
\* stream for a request (IDLE -> RECV_HEADERS) only if its id was never prepared before and is
\* greater than max_open of its kind; a push id is max_open of the push ids plus 2.
C8_StreamIdsAreOpenedOnce ==
    [][/\ conn'.pull_max_open >= conn.pull_max_open
       /\ conn'.push_max_open >= conn.push_max_open
       /\ \A e \in Events(conn', "prepare") :
              /\ ~e[4]
              /\ e[2] > e[3]
              /\ h2o_http2_stream_is_push(e[2]) => e[2] = e[3] + 2]_vars

(* ---- C9 ---- *)
HalfClosed(c) == c.ns["pull"].half_closed + c.ns["push"].half_closed

\* C9: every stream that run_pending_requests dispatches is dispatched at a moment when
\* pull.half_closed + push.half_closed < max_concurrent_requests_per_connection, and a run of
\* run_pending_requests that starts with the sum at or above the limit dispatches nothing and
\* leaves the queue as it is.
C9_DispatchOnlyBelowTheLimit ==
    /\ \A e \in Events(conn, "dispatch") : e[3] < MaxConcurrentRequests
    /\ (Running /\ conn.state < CS.IS_CLOSING /\ HalfClosed(conn) >= MaxConcurrentRequests) =>
           LET c == run_pending_requests(Begin(NoOracle))
           IN c.pending = conn.pending /\ c.ev = <<>> /\ c.streams = conn.streams

\* a handler run has dispatched a stream and left another one queued, the limit being reached
C9_Witness ==
    /\ conn.aborted = "" /\ Events(conn, "dispatch") # {}
    /\ conn.pending # <<>> /\ HalfClosed(conn) >= MaxConcurrentRequests

(* ---- C10 ---- *)
Streaming(c) == c.req_streaming_in_progress - c.tunnel
Queued(c) == {c.pending[i] : i \in DOMAIN c.pending}

\* C10: a stream is dispatched from the head of the pending queue or past streaming requests only,
\* which are passed over because _req_streaming_in_progress - tunnel has reached
\* max_concurrent_streaming_requests_per_connection; a streaming request is dispatched only below
\* that limit and is skipped only at or above it; and a run of run_pending_requests keeps the
\* skipped requests queued, keeps the order of the streams it leaves queued, and leaves no
\* stream queued that is admissible.
C10_FifoWithStreamingSkip ==
    /\ \A e \in Events(conn, "dispatch") :
           /\ e[4] \subseteq {TRUE}
           /\ e[4] # {} => e[5] >= MaxConcurrentStreaming
           /\ e[6] => e[5] < MaxConcurrentStreaming
    /\ \A e \in Events(conn, "skip") : e[3] >= MaxConcurrentStreaming
    /\ (Running /\ conn.state < CS.IS_CLOSING) =>
           LET c == run_pending_requests(Begin(NoOracle))
           IN c.aborted = "" =>
                  /\ c.pending = SelectSeq(conn.pending, LAMBDA id : id \in Queued(c))
                  /\ \A e \in Events(c, "skip") : e[2] \in Queued(c)
                  /\ \A id \in Queued(c) :
                         \/ HalfClosed(c) >= MaxConcurrentRequests
                         \/ c.streams[id].proceed_req /\ Streaming(c) >= MaxConcurrentStreaming

\* a handler run has skipped a streaming request and dispatched a stream queued behind it
C10_Witness ==
    /\ conn.aborted = ""
    /\ \E e \in Events(conn, "dispatch") : e[4] = {TRUE}
    /\ \E e \in Events(conn, "skip") : e[2] \in Queued(conn)

(* ---- C11 ---- *)
Undispatched(c, states) ==
    {id \in DOMAIN c.streams : ~c.streams[id].process_called /\ c.streams[id].state \in states}

\* C11 (as stated): the streams linked in _pending_reqs are the streams in REQ_PENDING that have
\* not been dispatched.
C11_PendingQueueIsTheRequestPendingStreams == Queued(conn) = Undispatched(conn, {SS.REQ_PENDING})

\* C11: the streams linked in _pending_reqs, each linked once, are the streams that have not been
\* dispatched and are either in REQ_PENDING or in RECV_BODY with proceed_req set (a request
\* queued for streaming on its first DATA frame).
C11_PendingQueueHoldsTheUndispatchedRequests ==
    /\ Len(conn.pending) = Cardinality(Queued(conn))
    /\ Queued(conn) =
           Undispatched(conn, {SS.REQ_PENDING})
           \cup {id \in Undispatched(conn, {SS.RECV_BODY}) : conn.streams[id].proceed_req}

\* a request is queued for streaming while its body is still arriving, next to a complete request
C11_Witness ==
    /\ Running
    /\ \E id \in Queued(conn) : conn.streams[id].state = SS.RECV_BODY
    /\ \E id \in Queued(conn) : conn.streams[id].state = SS.REQ_PENDING

(* ---- C12 ---- *)
\* C12 (as stated): a stream that a handler run has dispatched has its blocked_by_server flag
\* cleared, is in SEND_HEADERS unless it is a streaming request, and has been handed to the
\* application.
C12_AdmissionClearsBlockedByServer ==
    \A e \in Events(conn, "h2o_process_request") :
        Has(conn, e[2]) =>
            /\ ~conn.streams[e[2]].blocked_by_server
            /\ conn.streams[e[2]].process_called
            /\ conn.streams[e[2]].streamed \/ conn.streams[e[2]].state = SS.SEND_HEADERS

\* C12: process_request leaves the blocked_by_server flag of the stream as it is (set, for a stream
\* taken from the pending queue; clear, for a CONNECT request, which is dispatched at once); the
\* state advances to SEND_HEADERS and the stream is counted as half-closed unless it is a
\* streaming request, which keeps its state, is counted in _req_streaming_in_progress and has its
\* input window extended; and h2o_process_request is invoked last.
C12_AdmissionKeepsBlockedByServer ==
    /\ \A e \in Events(conn, "h2o_process_request") :
           Has(conn, e[2]) =>
               /\ conn.streams[e[2]].blocked_by_server = ~conn.streams[e[2]].is_tunnel_req
               /\ conn.streams[e[2]].process_called
               /\ conn.streams[e[2]].streamed \/ conn.streams[e[2]].state = SS.SEND_HEADERS
    /\ (Running /\ conn.state < CS.IS_CLOSING) =>
           \A id \in Queued(conn) :
               LET b == h2o_linklist_unlink(Begin(NoOracle), id)
                   c == process_request(b, id)
                   s == conn.streams[id]
               IN /\ c.aborted = ""
                  /\ s.blocked_by_server /\ c.streams[id].blocked_by_server
                  /\ c.blocked_by_server = conn.blocked_by_server
                  /\ c.streams[id].process_called
                  /\ c.ev[Len(c.ev)] = <<"h2o_process_request", id>>
                  /\ c.pull_max_processed >= id
                  /\ IF s.proceed_req
                     THEN /\ c.streams[id].state = s.state /\ c.streams[id].streamed
                          /\ c.req_streaming_in_progress = conn.req_streaming_in_progress + 1
                          /\ HalfClosed(c) = HalfClosed(conn)
                          /\ c.streams[id].input_window + c.streams[id].bytes_unnotified
                                 = s.input_window + s.bytes_unnotified
                                       + ActiveStreamWindow - StreamInitialWindow
                     ELSE /\ c.streams[id].state = SS.SEND_HEADERS /\ ~c.streams[id].streamed
                          /\ c.req_streaming_in_progress = conn.req_streaming_in_progress
                          /\ HalfClosed(c) = HalfClosed(conn) + 1

\* a handler run has dispatched a request that is not streamed: it is in SEND_HEADERS and the
\* server is still counted as working on it; a streaming request waits in the queue
C12_Witness ==
    /\ Running
    /\ \E e \in Events(conn, "h2o_process_request") :
           /\ Has(conn, e[2]) /\ conn.streams[e[2]].blocked_by_server
           /\ conn.streams[e[2]].state = SS.SEND_HEADERS
    /\ \E id \in Queued(conn) : conn.streams[id].proceed_req

C14_StreamingCountersAreBalanced ==
    LET InProgress == {id \in DOMAIN conn.streams :
                           conn.streams[id].streamed /\ conn.streams[id].body < RB.CLOSE_DELIVERED}
    IN /\ conn.req_streaming_in_progress = Cardinality(InProgress)
       /\ conn.tunnel = Cardinality({id \in InProgress : conn.streams[id].is_tunnel_req})
       /\ 0 <= conn.tunnel /\ conn.tunnel <= conn.req_streaming_in_progress
       /\ \A id \in DOMAIN conn.streams :
              conn.streams[id].body = RB.CLOSE_DELIVERED => ~conn.streams[id].proceed_req

\* a CONNECT request that was counted has been taken out of both counters, the stream still open
C14_Witness ==
    /\ Running
    /\ conn.req_streaming_in_progress = 0 /\ conn.tunnel = 0
    /\ \E id \in DOMAIN conn.streams :
           /\ conn.streams[id].streamed /\ conn.streams[id].is_tunnel_req
           /\ conn.streams[id].body = RB.CLOSE_DELIVERED

(* ---- C15 ---- *)
\* what a HEADERS frame that opens stream id with a CONNECT request leaves behind, on an OPEN
\* connection that is waiting for a frame; extension: by how much the input window of the stream
\* (bytes announced or to be announced to the peer) exceeds the default
ConnectIsHandled(extension) ==
    (Running /\ conn.reading /\ conn.state = CS.OPEN /\ conn.read_expect = "expect_default"
         /\ conn.input = <<>>) =>
        \A id \in {i \in ClientIds : i > conn.pull_max_open /\ ~Has(conn, i)}, es \in BOOLEAN,
           cl \in {SIZE_MAX, 1} :
            LET c == OnReadFrame(InUnit("HEADERS", id, es, TRUE, "CONNECT", cl), NoOracle)
            IN /\ c.aborted = "" /\ c.state = CS.OPEN /\ Has(c, id) /\ id \notin Queued(c)
               /\ Events(c, "dispatch") = {} /\ Events(c, "connection_error") = {}
               /\ IF ~es /\ cl = SIZE_MAX
                  THEN /\ c.streams[id].state = SS.RECV_BODY /\ c.streams[id].body = RB.OPEN
                       /\ c.streams[id].is_tunnel_req /\ c.streams[id].proceed_req
                       /\ c.streams[id].streamed /\ c.streams[id].process_called
                       /\ Events(c, "h2o_process_request") = {<<"h2o_process_request", id>>}
                       /\ c.tunnel = conn.tunnel + 1
                       /\ c.req_streaming_in_progress = conn.req_streaming_in_progress + 1
                       /\ c.streams[id].input_window + c.streams[id].bytes_unnotified
                              = StreamInitialWindow + extension
                       /\ {f \in Encoded(c) : f.id = id}
                              \subseteq {OutFrame("WINDOW_UPDATE", id, extension, "")}
                  ELSE /\ Events(c, "h2o_process_request") = {}
                       /\ ~c.streams[id].is_tunnel_req /\ ~c.streams[id].proceed_req
                       /\ c.tunnel = conn.tunnel
                       /\ c.streams[id].state >= SS.SEND_BODY
                       /\ OutFrame("HEADERS", id, 0, "") \in Encoded(c)

\* C15 (as stated): a CONNECT request without content-length and END_STREAM goes to RECV_BODY with
\* body state OPEN, is_tunnel_req and proceed_req set, and is dispatched at once, not queued, its
\* input window left at the default; with content-length or END_STREAM it is answered with 400.
C15_ConnectKeepsTheDefaultWindow == ConnectIsHandled(0)

\* C15: a CONNECT request without content-length and END_STREAM goes to RECV_BODY with body state
\* OPEN, is_tunnel_req and proceed_req set, and is dispatched at once, not queued, its input
\* window extended by active_stream_window_size minus the default like that of every streaming
\* request; with content-length or END_STREAM it is answered with 400 and not dispatched.
C15_ConnectIsDispatchedAtOnce == ConnectIsHandled(ActiveStreamWindow - StreamInitialWindow)

\* a handler run has dispatched a CONNECT request and announced the extended window
C15_Witness ==
    /\ Running
    /\ \E e \in Events(conn, "h2o_process_request") :
           /\ Has(conn, e[2]) /\ conn.streams[e[2]].is_tunnel_req
           /\ conn.streams[e[2]].state = SS.RECV_BODY /\ conn.streams[e[2]].body = RB.OPEN
           /\ OutFrame("WINDOW_UPDATE", e[2], ActiveStreamWindow - StreamInitialWindow, "") \in Encoded(conn)

(* ---- C16 ---- *)
\* C16: while the connection waits for the continuation of the header block of stream S, every
\* frame other than a CONTINUATION for stream S is a connection error PROTOCOL, and a
\* CONTINUATION that completes the block has it applied to stream S; while the connection waits
\* for any frame, a CONTINUATION is a connection error PROTOCOL.
C16_ContinuationBelongsToTheHeaders ==
    (Running /\ conn.reading /\ conn.state < CS.IS_CLOSING /\ conn.input = <<>>) =>
        \A f \in HeaderFrames :
            LET c == OnReadFrame(f, NoOracle)
                IsProtocolError == \E e \in Events(c, "connection_error") : e[2] = ERR.PROTOCOL
            IN CASE conn.read_expect = "expect_continuation_of_headers" ->
                        IF f.t = "CONTINUATION" /\ f.id = Head(conn.headers_unparsed).id
                        THEN c.aborted = "" /\ Events(c, "connection_error") = {}
                        ELSE IsProtocolError
                 [] conn.read_expect = "expect_default" -> f.t = "CONTINUATION" => IsProtocolError
                 [] OTHER -> TRUE

(* ---- C17 ---- *)
\* the connection is open, reads, waits for any frame and has no input left over
AwaitsFrame ==
    /\ Running /\ conn.reading /\ conn.state < CS.IS_CLOSING /\ conn.input = <<>>
    /\ conn.read_expect = "expect_default"

\* C17: a SETTINGS frame without ACK that changes the INITIAL_WINDOW_SIZE of the peer by delta
\* adds delta to the output window of every stream of the stream map, once, leaves the output
\* window of the connection alone and has the writer started; and if the window of a stream
\* would exceed INT32_MAX, the frame is a connection error FLOW_CONTROL.
C17_SettingsMoveEveryStreamWindow ==
    AwaitsFrame =>
        \A n \in {0, INT32_MAX} \ {conn.peer_initial_window} :
            LET c == OnReadFrame(InUnit("SETTINGS", 0, FALSE, FALSE, "", n), NoOracle)
                delta == n - conn.peer_initial_window
                Overflows(id) ==
                    conn.streams[id].output_window > 0 /\ delta > INT32_MAX - conn.streams[id].output_window
            IN IF \E id \in DOMAIN conn.streams : Overflows(id)
               THEN \E e \in Events(c, "connection_error") : e[2] = ERR.FLOW_CONTROL
               ELSE /\ c.aborted = "" /\ Events(c, "connection_error") = {}
                    /\ c.peer_initial_window = n /\ c.write_window = conn.write_window
                    /\ h2o_socket_is_writing(c)
                    /\ \A id \in DOMAIN conn.streams :
                           Has(c, id) /\ c.streams[id].output_window = conn.streams[id].output_window + delta

(* ---- C18 ---- *)
\* what a WINDOW_UPDATE frame does to a connection that awaits a frame. The frame is judged by
\* its stream id and its increment; with decoded, a frame that the decoder refuses at the level of
\* the stream is judged by that: it is answered by RST_STREAM(PROTOCOL) on its stream id, whatever
\* the stream id is
WindowUpdateIsScoped(decoded) ==
    AwaitsFrame =>
        \A f \in {g \in FlowFrames : g.t = "WINDOW_UPDATE" /\ g.m # "CONNERR"} :
            LET c == OnReadFrame(f, NoOracle)
                id == f.id
                ConnectionError(code) == \E e \in Events(c, "connection_error") : e[2] = code
                Overflows(w) == w > 0 /\ f.n > INT32_MAX - w
                Reset(code) ==
                    /\ OutFrame("RST_STREAM", id, code, "") \in Encoded(c)
                    /\ Has(conn, id) => ~Has(c, id) \/ c.streams[id].state = SS.END_STREAM
                \* the connection goes on as it was, and no stream but the one of the frame is reset
                ConnectionGoesOn ==
                    /\ c.aborted = "" /\ Events(c, "connection_error") = {} /\ c.state = conn.state
                    /\ \A e \in Encoded(c) : e.t # "GOAWAY" /\ (e.t = "RST_STREAM" => e.id = id)
                    /\ \A j \in DOMAIN conn.streams \ {id} :
                           Has(c, j) /\ c.streams[j].output_window = conn.streams[j].output_window
            IN CASE decoded /\ f.m = "STREAMERR" ->
                        ConnectionGoesOn /\ Reset(-ERR.PROTOCOL) /\ c.write_window = conn.write_window
                 [] id = 0 ->
                        IF Overflows(conn.write_window) THEN ConnectionError(ERR.FLOW_CONTROL)
                        ELSE ConnectionGoesOn /\ c.write_window = conn.write_window + f.n
                 [] is_idle_stream_id(conn, id) -> ConnectionError(ERR.PROTOCOL)
                 [] Has(conn, id) ->
                        /\ ConnectionGoesOn /\ c.write_window = conn.write_window
                        /\ IF Overflows(conn.streams[id].output_window) THEN Reset(-ERR.FLOW_CONTROL)
                           ELSE /\ Has(c, id)
                                /\ c.streams[id].output_window = conn.streams[id].output_window + f.n
                                /\ \A e \in Encoded(c) : e.t # "RST_STREAM"
                 [] OTHER ->
                        /\ ConnectionGoesOn /\ c.write_window = conn.write_window
                        /\ DOMAIN c.streams = DOMAIN conn.streams
                        /\ \A e \in Encoded(c) : e.t # "RST_STREAM"

\* C18 as it is stated: an increment that overflows the output window of the connection is a
\* connection error FLOW_CONTROL; one that overflows the output window of a stream resets that
\* stream only, with RST_STREAM(FLOW_CONTROL), and the connection goes on; every WINDOW_UPDATE on a
\* stream id that was never opened is a connection error PROTOCOL; every WINDOW_UPDATE on the id
\* of a closed stream is ignored.
C18_WindowUpdateIsJudgedByItsStreamId == WindowUpdateIsScoped(FALSE)

\* C18: for a WINDOW_UPDATE whose payload decodes, an increment that overflows the output window
\* of the connection is a connection error FLOW_CONTROL; one that overflows the output window of
\* a stream resets that stream only, with RST_STREAM(FLOW_CONTROL), and the connection goes on; on
\* a stream id that was never opened it is a connection error PROTOCOL; on the id of a closed
\* stream it is ignored. A WINDOW_UPDATE that the decoder refuses at the level of the stream is
\* answered by RST_STREAM(PROTOCOL) on its stream id and the connection goes on, whether the
\* stream is open, closed or was never opened.
C18_WindowUpdateErrorsAreScoped == WindowUpdateIsScoped(TRUE)

\* the increment of a WINDOW_UPDATE has overflown the output window of a stream: the stream was
\* reset with RST_STREAM(FLOW_CONTROL) and the connection is open
C18_Witness ==
    /\ Running /\ conn.state = CS.OPEN /\ Events(conn, "connection_error") = {}
    /\ \E id \in {1, 3} : OutFrame("RST_STREAM", id, -ERR.FLOW_CONTROL, "") \in Encoded(conn) /\ ~Has(conn, id)

(* ---- C19 ---- *)
\* C19: every DATA frame, whether its stream is open, closed or unknown, takes its length from
\* the input window of the connection; if no more than half of the target is left then, a
\* WINDOW_UPDATE for the connection by what is missing is enqueued and the window is back at the
\* target; the input window of the connection is never negative, that is, what was consumed never
\* exceeds the initial window and the increments sent.
C19_ConnectionInputWindowIsAccounted ==
    /\ Running => conn.input_window >= 0 /\ conn.input_window <= ConnectionWindow
    /\ AwaitsFrame =>
           \A id \in {1, 3}, es \in BOOLEAN, n \in {0, 1}, o \in Oracles :
               LET c == OnReadFrame(InUnit("DATA", id, es, FALSE, "", n), o)
                   avail == conn.input_window - n
                   Updates == {e \in Encoded(c) : e.t = "WINDOW_UPDATE" /\ e.id = 0}
               IN c.aborted = "" =>
                      IF avail <= ConnectionWindow \div 2
                      THEN /\ Updates = {OutFrame("WINDOW_UPDATE", 0, ConnectionWindow - avail, "")}
                           /\ ~c.destroyed => c.input_window = ConnectionWindow
                      ELSE /\ Updates = {}
                           /\ ~c.destroyed => c.input_window = avail

\* a DATA frame for a stream that takes no body was answered by RST_STREAM(STREAM_CLOSED), and
\* its length made the connection send a WINDOW_UPDATE that brought the window back to the target
C19_Witness ==
    /\ Running /\ conn.input_window = ConnectionWindow
    /\ \E e \in Encoded(conn) : e.t = "WINDOW_UPDATE" /\ e.id = 0 /\ e.code = ConnectionWindow \div 2
    /\ \E e \in Encoded(conn) : e.t = "RST_STREAM" /\ e.code = -ERR.STREAM_CLOSED

(* ---- C20 ---- *)
\* C20: for a request that declared a content-length, a DATA frame that takes the bytes received
\* beyond it, and an end of the stream (a DATA frame or trailers with END_STREAM) at which the
\* bytes received differ from it, are answered by RST_STREAM(PROTOCOL) and the stream is reset,
\* with the connection open as before; and no request is handed to the application with a body
\* that does not match its content-length.
C20_ContentLengthIsGuarded ==
    /\ \A e \in Events(conn, "h2o_process_request") :
           (Has(conn, e[2]) /\ conn.streams[e[2]].content_length # SIZE_MAX) =>
               /\ conn.streams[e[2]].received <= conn.streams[e[2]].content_length
               /\ conn.streams[e[2]].body \notin {RB.OPEN_BEFORE_FIRST_FRAME, RB.OPEN} =>
                      conn.streams[e[2]].received = conn.streams[e[2]].content_length
    /\ (AwaitsFrame /\ Has(conn, 1) /\ conn.streams[1].state < SS.END_STREAM
          /\ conn.streams[1].body \in {RB.OPEN_BEFORE_FIRST_FRAME, RB.OPEN}
          /\ conn.streams[1].content_length # SIZE_MAX) =>
           \A f \in {g \in BodyFrames : g.id = 1 /\ g.t \in {"DATA", "HEADERS"}}, o \in Oracles :
               LET c == OnReadFrame(f, o)
                   received == conn.streams[1].received + (IF f.t = "DATA" THEN f.n ELSE 0)
                   cl == conn.streams[1].content_length
               IN (f.t = "DATA" \/ f.es) /\ (IF f.es THEN received # cl ELSE received > cl) =>
                      /\ c.aborted = "" /\ Events(c, "connection_error") = {} /\ c.state = conn.state
                      /\ OutFrame("RST_STREAM", 1, -ERR.PROTOCOL, "") \in Encoded(c)
                      /\ ~Has(c, 1) \/ c.streams[1].state = SS.END_STREAM
                      /\ Events(c, "h2o_process_request") = {}

(* ---- C21 ---- *)
\* C21: a DATA frame that takes the bytes received for a stream above max_request_entity_size is
\* answered by RST_STREAM(REFUSED_STREAM) and the stream is reset, whether or not the frame also
\* breaks the content-length of the request (no RST_STREAM(PROTOCOL) is sent then); the frame
\* adds nothing to the body buffer and hands nothing to the application, and neither the buffer
\* nor the entity shown to the application ever holds more than max_request_entity_size bytes.
C21_EntitySizeIsGuarded ==
    /\ \A id \in DOMAIN conn.streams :
           /\ conn.streams[id].bufsize <= MaxRequestEntitySize
           /\ conn.streams[id].entity_len <= MaxRequestEntitySize
    /\ (AwaitsFrame /\ Has(conn, 1) /\ conn.streams[1].body \in {RB.OPEN_BEFORE_FIRST_FRAME, RB.OPEN}) =>
           \A es \in BOOLEAN, n \in {0, 1}, o \in Oracles :
               LET c == OnReadFrame(InUnit("DATA", 1, es, FALSE, "", n), o)
               IN (n # 0 /\ conn.streams[1].received + n > MaxRequestEntitySize) =>
                      /\ c.aborted = "" /\ Events(c, "connection_error") = {}
                      /\ {e \in Encoded(c) : e.t = "RST_STREAM"} =
                             {OutFrame("RST_STREAM", 1, -ERR.REFUSED_STREAM, "")}
                      /\ Events(c, "h2o_process_request") = {}
                      /\ IF Has(c, 1)
                         THEN /\ c.streams[1].state = SS.END_STREAM
                              /\ c.streams[1].bufsize = conn.streams[1].bufsize
                              /\ c.streams[1].entity = conn.streams[1].entity
                              /\ c.streams[1].entity_len = conn.streams[1].entity_len
                         ELSE TRUE

\* the request declared a content-length of 1, one byte of its body has arrived, and one more
\* byte breaks the size limit and the content-length at once: it is refused
C21_Witness ==
    /\ AwaitsFrame /\ Has(conn, 1) /\ conn.streams[1].state < SS.END_STREAM
    /\ conn.streams[1].body = RB.OPEN /\ conn.streams[1].content_length = 1
    /\ conn.streams[1].received = MaxRequestEntitySize
    /\ OutFrame("RST_STREAM", 1, -ERR.REFUSED_STREAM, "")
           \in Encoded(OnReadFrame(InUnit("DATA", 1, FALSE, FALSE, "", 1), NoOracle))

(* ---- C22 ---- *)
\* C22: once a RST_STREAM for stream 1 has been enqueued by the server (the last handler run
\* encoded it) or received from the peer (the connection reads it now), a DATA or WINDOW_UPDATE
\* frame that the peer sends on stream 1 next makes the server enqueue no frame that carries
\* stream id 1, in particular no second RST_STREAM.
C22_NoFrameAfterRstStream ==
    AwaitsFrame =>
        \A f \in {InUnit("DATA", 1, es, FALSE, "", n) : es \in BOOLEAN, n \in {0, 1}}
                  \cup {InUnit("WINDOW_UPDATE", 1, FALSE, FALSE, "", 1)}, o \in Oracles :
            /\ (\E e \in Encoded(conn) : e.t = "RST_STREAM" /\ e.id = 1) =>
                   \A e \in Encoded(OnReadFrame(f, o)) : e.id # 1
            /\ LET c1 == OnReadFrame(InUnit("RST_STREAM", 1, FALSE, FALSE, "", 0), NoOracle)
               IN (c1.aborted = "" /\ Events(c1, "connection_error") = {} /\ c1.state < CS.IS_CLOSING) =>
                      \A e \in Encoded(on_read([c1 EXCEPT !.ev = <<>>, !.oracle = o], <<f>>, FALSE)) : e.id # 1

(* ---- C23 ---- *)
\* C23 (as stated): a RST_STREAM of the peer on a stream of the map takes the stream out of the
\* map and out of the pending queue at once, leaves blocked_by_server and the streaming and tunnel
\* counters as the remaining streams make them, and enqueues no frame for the stream or for the
\* connection; on the id of a closed stream the handler run ends as a run without the frame; on
\* a stream id never opened it is a connection error PROTOCOL.
C23_PeerResetDestroysTheStream ==
    AwaitsFrame =>
        \A id \in PullIds :
            LET c == OnReadFrame(InUnit("RST_STREAM", id, FALSE, FALSE, "", 0), NoOracle)
                InProgress == {i \in DOMAIN c.streams : c.streams[i].streamed /\ c.streams[i].body < RB.CLOSE_DELIVERED}
            IN /\ c.aborted = ""
               /\ IF is_idle_stream_id(conn, id)
                  THEN /\ Events(c, "connection_error") =
                              {<<"connection_error", ERR.PROTOCOL, "unexpected stream id in RST_STREAM frame">>}
                       /\ c.state > conn.state
                  ELSE /\ Events(c, "connection_error") = {} /\ c.state = conn.state
                       /\ \A e \in Encoded(c) : e.id \notin {0, id}
                       /\ ~Has(conn, id) => c = Commit(on_read(Begin(NoOracle), <<>>, FALSE))
               /\ Has(conn, id) =>
                      /\ ~Has(c, id)
                      /\ \A i \in DOMAIN c.pending : Has(c, c.pending[i]) /\ c.pending[i] # id
                      /\ c.blocked_by_server = Cardinality({i \in DOMAIN c.streams : c.streams[i].blocked_by_server})
                      /\ c.req_streaming_in_progress = Cardinality(InProgress)
                      /\ c.tunnel = Cardinality({i \in InProgress : c.streams[i].is_tunnel_req})

\* C23: as above, except that a stream that is sending its response and is linked for the
\* callback of the write in flight stays in the map: it goes to END_STREAM, its pending data is
\* dropped, it leaves the scheduler's active set, and the write-completion callback closes it.
C23_PeerResetClosesTheStreamOrDefers ==
    AwaitsFrame =>
        \A id \in PullIds :
            LET c == OnReadFrame(InUnit("RST_STREAM", id, FALSE, FALSE, "", 0), NoOracle)
                InProgress == {i \in DOMAIN c.streams : c.streams[i].streamed /\ c.streams[i].body < RB.CLOSE_DELIVERED}
            IN /\ c.aborted = ""
               /\ IF is_idle_stream_id(conn, id)
                  THEN /\ Events(c, "connection_error") =
                              {<<"connection_error", ERR.PROTOCOL, "unexpected stream id in RST_STREAM frame">>}
                       /\ c.state > conn.state
                  ELSE /\ Events(c, "connection_error") = {} /\ c.state = conn.state
                       /\ \A e \in Encoded(c) : e.id \notin {0, id}
                       /\ ~Has(conn, id) => c = Commit(on_read(Begin(NoOracle), <<>>, FALSE))
               /\ Has(conn, id) =>
                      /\ IF conn.streams[id].state >= SS.SEND_HEADERS /\ h2o_linklist_is_linked(conn, id)
                         THEN /\ Has(c, id) /\ c.streams[id].state = SS.END_STREAM
                              /\ ~c.streams[id].pending_data /\ id \notin c.active
                              /\ c.streams[id].link = conn.streams[id].link
                         ELSE ~Has(c, id)
                      /\ \A i \in DOMAIN c.pending : Has(c, c.pending[i]) /\ c.pending[i] # id
                      /\ c.blocked_by_server = Cardinality({i \in DOMAIN c.streams : c.streams[i].blocked_by_server})
                      /\ c.req_streaming_in_progress = Cardinality(InProgress)
                      /\ c.tunnel = Cardinality({i \in InProgress : c.streams[i].is_tunnel_req})

\* a CONNECT request is being served as a tunnel and the peer's RST_STREAM closes it at once,
\* which brings the tunnel counter down
C23_Witness ==
    /\ AwaitsFrame /\ conn.tunnel = 1
    /\ \E id \in DOMAIN conn.streams :
           LET c == OnReadFrame(InUnit("RST_STREAM", id, FALSE, FALSE, "", 0), NoOracle)
           IN conn.streams[id].is_tunnel_req /\ ~Has(c, id) /\ c.tunnel = 0

(* ---- C24 ---- *)
\* the streams that only a PRIORITY frame has announced: in the map, in the IDLE state
PriorityOnly(c) == {id \in DOMAIN c.streams : c.streams[id].state = SS.IDLE}

\* C24 (as stated): num_streams.priority.open counts the streams that only a PRIORITY frame has
\* announced and never exceeds max_streams_for_priority; a PRIORITY frame for a pull stream id
\* never opened adds such a stream with the weight of the frame, or is the connection error
\* ENHANCE_YOUR_CALM when the count is at the limit; a PRIORITY frame for the id of a closed pull
\* stream or of a push stream that does not exist is ignored; HEADERS on the id of such a stream
\* takes the stream of the map, with the scheduler node and the weight it has, for the request.
C24_HeadersReuseThePriorityOnlyStream ==
    /\ Running => /\ conn.ns["priority"].open = Cardinality(PriorityOnly(conn))
                  /\ conn.ns["priority"].open <= MaxStreamsForPriority
    /\ AwaitsFrame =>
           \A id \in Ids :
               /\ \A w \in {h2o_http2_default_priority, 32} :
                      LET c == OnReadFrame(InUnit("PRIORITY", id, FALSE, FALSE, "", w), NoOracle)
                      IN ~Has(conn, id) =>
                             /\ c.aborted = ""
                             /\ IF h2o_http2_stream_is_push(id) \/ id <= conn.pull_max_open
                                THEN c = Commit(on_read(Begin(NoOracle), <<>>, FALSE))
                                ELSE IF conn.ns["priority"].open >= MaxStreamsForPriority
                                THEN Events(c, "connection_error") =
                                         {<<"connection_error", ERR.ENHANCE_YOUR_CALM,
                                            "too many streams in idle/closed state">>}
                                ELSE /\ Events(c, "connection_error") = {}
                                     /\ PriorityOnly(c) = PriorityOnly(conn) \cup {id}
                                     /\ c.streams[id].weight = w /\ c.streams[id].sched_open
                                     /\ c.pull_max_open = conn.pull_max_open
                                     /\ c.streams[id].slot = "priority"
               /\ LET c == OnReadFrame(InUnit("HEADERS", id, TRUE, TRUE, "GET", SIZE_MAX), NoOracle)
                      reused ==
                          /\ Events(c, "connection_error") = {}
                          /\ Events(c, "prepare") = {<<"prepare", id, conn.pull_max_open, FALSE>>}
                          /\ Events(c, "h2o_process_request") \cup {<<"h2o_process_request", i>> : i \in Queued(c)}
                                 = {<<"h2o_process_request", id>>}
                          /\ Has(c, id) /\ c.streams[id].weight = conn.streams[id].weight
                          /\ c.streams[id].sched_open
                          /\ PriorityOnly(c) = PriorityOnly(conn) \ {id}
                  IN id \in PriorityOnly(conn) =>
                         /\ c.aborted = ""
                         /\ reused

\* C24: as above, except that HEADERS takes the stream for the request only while its id is above
\* pull_stream_ids.max_open; once a request on a higher stream id has been opened, HEADERS on
\* the id of the priority-only stream is the connection error PROTOCOL.
C24_PriorityOnlyStreamsAreTracked ==
    /\ Running => /\ conn.ns["priority"].open = Cardinality(PriorityOnly(conn))
                  /\ conn.ns["priority"].open <= MaxStreamsForPriority
    /\ AwaitsFrame =>
           \A id \in Ids :
               /\ \A w \in {h2o_http2_default_priority, 32} :
                      LET c == OnReadFrame(InUnit("PRIORITY", id, FALSE, FALSE, "", w), NoOracle)
                      IN ~Has(conn, id) =>
                             /\ c.aborted = ""
                             /\ IF h2o_http2_stream_is_push(id) \/ id <= conn.pull_max_open
                                THEN c = Commit(on_read(Begin(NoOracle), <<>>, FALSE))
                                ELSE IF conn.ns["priority"].open >= MaxStreamsForPriority
                                THEN Events(c, "connection_error") =
                                         {<<"connection_error", ERR.ENHANCE_YOUR_CALM,
                                            "too many streams in idle/closed state">>}
                                ELSE /\ Events(c, "connection_error") = {}
                                     /\ PriorityOnly(c) = PriorityOnly(conn) \cup {id}
                                     /\ c.streams[id].weight = w /\ c.streams[id].sched_open
                                     /\ c.pull_max_open = conn.pull_max_open
                                     /\ c.streams[id].slot = "priority"
               /\ LET c == OnReadFrame(InUnit("HEADERS", id, TRUE, TRUE, "GET", SIZE_MAX), NoOracle)
                      reused ==
                          /\ Events(c, "connection_error") = {}
                          /\ Events(c, "prepare") = {<<"prepare", id, conn.pull_max_open, FALSE>>}
                          /\ Events(c, "h2o_process_request") \cup {<<"h2o_process_request", i>> : i \in Queued(c)}
                                 = {<<"h2o_process_request", id>>}
                          /\ Has(c, id) /\ c.streams[id].weight = conn.streams[id].weight
                          /\ c.streams[id].sched_open
                          /\ PriorityOnly(c) = PriorityOnly(conn) \ {id}
                  IN id \in PriorityOnly(conn) =>
                         /\ c.aborted = ""
                         /\ IF id <= conn.pull_max_open
                             THEN Events(c, "connection_error") =
                                      {<<"connection_error", ERR.PROTOCOL, "invalid stream id in HEADERS frame">>}
                             ELSE reused

\* a PRIORITY frame has announced stream 3 with a weight of its own, and a request on stream 3
\* is being served by that stream
C24_Witness ==
    /\ Running /\ Has(conn, 3) /\ conn.streams[3].weight = 32 /\ conn.streams[3].process_called
    /\ conn.ns["priority"].open = 0 /\ conn.ns["pull"].open >= 1

(* ---- C25 ---- *)
\* C25: _recently_closed_streams has HTTP2_CLOSED_STREAM_PRIORITIES slots, filled from slot 0 on
\* without gaps; next_slot is the number of the slots in use until all are, and always a slot of
\* the ring; every slot in use holds an open scheduler node, of a stream that is no longer in
\* the map, and no two slots hold the same stream. The closing of a stream writes the stream to
\* the slot at next_slot and moves next_slot on by one, back to 0 after the last slot, so that
\* the slot written is the one written longest ago; the node that slot held is closed first.
C25_RingKeepsTheLastClosedStreams ==
    LET K == HTTP2_CLOSED_STREAM_PRIORITIES
        InUse(c) == {i \in 0..(K - 1) : c.recently_closed[i].stream_id # 0}
    IN /\ Running =>
              /\ DOMAIN conn.recently_closed = 0..(K - 1) /\ conn.next_slot \in 0..(K - 1)
              /\ InUse(conn) = 0..(Cardinality(InUse(conn)) - 1)
              /\ Cardinality(InUse(conn)) < K => conn.next_slot = Cardinality(InUse(conn))
              /\ \A i \in InUse(conn) :
                     /\ conn.recently_closed[i].sched_open /\ ~Has(conn, conn.recently_closed[i].stream_id)
                     /\ \A j \in InUse(conn) :
                            conn.recently_closed[i].stream_id = conn.recently_closed[j].stream_id => i = j
       /\ AwaitsFrame =>
              \A id \in DOMAIN conn.streams :
                  LET c == OnReadFrame(InUnit("RST_STREAM", id, FALSE, FALSE, "", 0), NoOracle)
                      dst == conn.next_slot
                      old == conn.recently_closed[dst]
                  IN (c.aborted = "" /\ ~Has(c, id)) =>
                         /\ c.recently_closed =
                                [conn.recently_closed EXCEPT ![dst] = [stream_id |-> id, sched_open |-> TRUE]]
                         /\ c.next_slot = (dst + 1) % K
                         /\ Events(c, "h2o_http2_scheduler_close") =
                                IF old.stream_id = 0 THEN {}
                                ELSE {<<"h2o_http2_scheduler_close", old.stream_id, dst>>}

\* every slot is in use, next_slot is back at slot 0, and the closing of one more stream has
\* closed the node of the stream closed first and taken its slot
C25_Witness ==
    /\ Running /\ conn.next_slot = 1
    /\ \A i \in DOMAIN conn.recently_closed : conn.recently_closed[i].stream_id # 0
    /\ \E e \in Events(conn, "h2o_http2_scheduler_close") : e[3] = 0

(* ---- C26 ---- *)
\* C26: the assertion of do_emit_writereq (no buffer in flight) never fails, whichever of
\* on_read, the write timer, on_notify_write, on_write_complete and the application's calls run
\* in whichever order; a handler run issues at most one h2o_socket_write, and what it hands to
\* the socket is then the buffer in flight; the write timer and the write notification are
\* pending only while no buffer is in flight, and never both.
C26_OneWriteInFlight ==
    /\ conn.aborted # "do_emit_writereq: buf_in_flight == NULL"
    /\ Cardinality({i \in DOMAIN conn.ev : conn.ev[i][1] = "h2o_socket_write"}) <= 1
    /\ \A e \in Events(conn, "h2o_socket_write") : e[2] # 0 /\ (Running => conn.in_flight = e[2])
    /\ Running => /\ (conn.wtimer \/ conn.notify) => conn.in_flight = 0
                  /\ ~(conn.wtimer /\ conn.notify)

\* a buffer is in flight while further frames wait in _write.buf: they are not written, and no
\* timer is set, until the write completes
C26_Witness ==
    /\ Running /\ conn.in_flight # 0 /\ conn.wbuf # 0 /\ ~conn.wtimer /\ ~conn.notify
    /\ Events(conn, "encode") # {} /\ Events(conn, "h2o_socket_write") = {}

\* C27: close_connection marks the connection IS_CLOSING; with a write in flight or the write timer
\* linked it returns 0 and leaves the connection alive, otherwise it destroys the connection and
\* returns -1.  While the close is deferred no callback parses input, dispatches a request or runs
\* the streams that wait to proceed, and the deferred close is eventually completed.
C27_SoftClose ==
    /\ [](Running =>
            LET r == close_connection(Begin(NoOracle)) IN
                /\ r[1].state = CS.IS_CLOSING /\ r[1].aborted = ""
                /\ IF conn.in_flight # 0 \/ conn.wtimer
                   THEN r[2] = 0 /\ ~r[1].destroyed
                        /\ r[1] = [Begin(NoOracle) EXCEPT !.state = CS.IS_CLOSING]
                   ELSE r[2] = -1 /\ r[1].destroyed)
    /\ [][Running /\ conn.state = CS.IS_CLOSING =>
            \/ conn'.destroyed
            \/ /\ conn'.aborted = "" /\ conn'.state = CS.IS_CLOSING
               /\ Len(conn'.input) >= Len(conn.input)
               /\ Len(conn'.to_proceed) >= Len(conn.to_proceed)
               /\ \A i \in DOMAIN conn.to_proceed :
                      LET id == conn.to_proceed[i] IN
                          /\ conn'.to_proceed[i] = id
                          /\ Has(conn', id) /\ conn'.streams[id] = conn.streams[id]
               /\ Events(conn', "h2o_process_request") = {}
               /\ \A e \in Encoded(conn') : e.id # 0]_vars
    /\ (Running /\ conn.state = CS.IS_CLOSING ~> conn.destroyed)

\* a close that stays deferred behind a write issued while closing: there is input that is never
\* parsed, and a stream that waits to proceed was left alone by the callback that issued the write
C27_Witness ==
    /\ Running /\ conn.state = CS.IS_CLOSING /\ conn.in_flight # 0 /\ conn.input # <<>>
    /\ conn.to_proceed # <<>> /\ Events(conn, "h2o_socket_write") # {} /\ Events(conn, "encode") = {}

\* C28 as stated: a HALF_CLOSED connection starts closing only when none of its streams is open
\* any more
C28_NotClosedWhileAStreamIsOpen ==
    [][Running /\ conn.state = CS.HALF_CLOSED /\ conn.ns["pull"].open + conn.ns["push"].open # 0
         /\ conn'.state = CS.IS_CLOSING
       => ~conn'.destroyed /\ conn'.ns["pull"].open + conn'.ns["push"].open = 0]_vars

\* C28, amended to the write cycle: do_emit_writereq, run from the write timer, the write
\* notification or the write completion, moves a HALF_CLOSED connection to IS_CLOSING exactly when
\* no pull or push stream is open once the cycle has sent what it can, and destroys it at once when
\* it had nothing to write; in all else the cycle does what it does on an OPEN connection, so that
\* the streams open at the time of the GOAWAY send their frames
C28_HalfClosedClosesInTheWriteCycle ==
    Running /\ conn.state = CS.HALF_CLOSED =>
        LET Open(c) == c.ns["pull"].open + c.ns["push"].open
            Cycle(c) == IF conn.wtimer THEN emit_writereq(c)
                        ELSE IF conn.notify THEN on_notify_write(c, FALSE)
                        ELSE on_write_complete(c, FALSE)
        IN conn.wtimer \/ conn.notify \/ conn.in_flight # 0 =>
               LET c == Cycle(Begin(NoOracle))
                   d == Cycle([Begin(NoOracle) EXCEPT !.state = CS.OPEN])
               IN /\ c.aborted = ""
                  /\ IF c.destroyed
                     THEN /\ Open(conn) = 0 /\ conn.wbuf = 0
                          /\ Events(c, "h2o_socket_write") = {} /\ Encoded(c) = {}
                     ELSE /\ c.state = (IF Open(c) = 0 THEN CS.IS_CLOSING ELSE CS.HALF_CLOSED)
                          /\ conn.in_flight = 0 => [c EXCEPT !.state = CS.OPEN] = d

\* the write cycle of a HALF_CLOSED connection sends the last frame of the last open stream and
\* starts closing the connection
C28_Witness ==
    /\ Running /\ conn.state = CS.HALF_CLOSED /\ conn.wtimer
    /\ conn.ns["pull"].open + conn.ns["push"].open # 0
    /\ emit_writereq(Begin(NoOracle)).state = CS.IS_CLOSING
    /\ \E e \in Encoded(emit_writereq(Begin(NoOracle))) : e.t = "DATA"

\* C29: a request to write made while the connection is reading and the write buffer with the
\* buffer in flight holds the soft maximum stops the reading, and nothing else stops it on a
\* connection that is not closing; a write completion resumes the reading exactly when the
\* connection is not closing and what is still buffered is below the soft maximum, and nothing
\* else resumes it; reading that has been stopped is resumed, unless the connection starts closing
C29_BackPressure ==
    /\ [](Running /\ conn.state < CS.IS_CLOSING =>
            LET c == h2o_http2_conn_request_write(Encode(Begin(NoOracle), OutFrame("PING", 0, 0, "")))
            IN c.reading <=> conn.reading /\ Size(conn.wbuf + 1) + conn.in_flight < SoftMaxFrames)
    /\ [](Running /\ conn.in_flight # 0 =>
            LET c == on_write_complete(Begin(NoOracle), FALSE)
            IN c.aborted = "" /\ ~c.destroyed =>
                   (c.reading <=> conn.reading \/ (conn.state < CS.IS_CLOSING /\ conn.wbuf < SoftMaxFrames)))
    /\ [][/\ conn.reading /\ ~conn'.reading /\ Running' /\ conn'.state < CS.IS_CLOSING
             => bytes_in_buf(conn') >= SoftMaxFrames]_vars
    /\ [][~conn.reading /\ conn'.reading
             => /\ Running /\ conn.in_flight # 0 /\ conn.state < CS.IS_CLOSING /\ conn.wbuf < SoftMaxFrames
                /\ conn' = Commit(on_write_complete(Begin(NoOracle), FALSE))]_vars
    /\ (Running /\ conn.state < CS.IS_CLOSING /\ ~conn.reading
           ~> conn.reading \/ ~Running \/ conn.state = CS.IS_CLOSING)

\* the reading is stopped, and the completion of the write in flight resumes it
C29_Witness ==
    /\ Running /\ conn.state < CS.IS_CLOSING /\ ~conn.reading /\ conn.in_flight # 0
    /\ on_write_complete(Begin(NoOracle), FALSE).reading

C31_StreamedModeStartsWithTheFirstData ==
    AwaitsFrame =>
        \A f \in RequestFrames :
            \A o \in {p \in Oracles : p.write_req_ok /\ ~p.install_write_req /\ (p.can_stream => f.t = "DATA")} :
                LET c == OnReadFrame(f, o) IN
                    c.aborted = "" =>
                        \A id \in DOMAIN c.streams :
                            LET before == IF Has(conn, id) THEN conn.streams[id] ELSE NewStream
                                first == /\ f.t = "DATA" /\ f.id = id /\ ~f.es /\ o.can_stream
                                         /\ before.body = RB.OPEN_BEFORE_FIRST_FRAME
                            IN /\ c.streams[id].streamed /\ ~before.streamed => first
                               /\ first => /\ c.streams[id].proceed_req /\ c.streams[id].streamed
                                           /\ c.streams[id].input_window + c.streams[id].bytes_unnotified
                                                  = before.input_window + before.bytes_unnotified - f.n
                                                    + ActiveStreamWindow - StreamInitialWindow

\* C31, amended: proceed_req is installed by the first DATA frame of a request if that frame lacks
\* END_STREAM and the application can stream the request, and by the HEADERS of a CONNECT request,
\* and by nothing else.  The stream enters the streamed mode, with its input window extended by the
\* active window size minus the default, when process_request dispatches it with proceed_req
\* installed: in the run that installed it unless the stream has to wait in the pending queue
\* (the request limit or the streaming limit is reached, or the requests queued ahead of it use
\* the limit up), and otherwise in a later run of any handler.  A request without proceed_req is dispatched by its
\* END_STREAM only and never enters the streamed mode.
C31_StreamedModeStartsAtTheDispatch ==
    /\ [](AwaitsFrame =>
            \A f \in RequestFrames :
                \A o \in {p \in Oracles : p.write_req_ok /\ ~p.install_write_req /\ (p.can_stream => f.t = "DATA")} :
                    LET c == OnReadFrame(f, o) IN
                        c.aborted = "" =>
                            \A id \in DOMAIN c.streams :
                                LET before == IF Has(conn, id) THEN conn.streams[id] ELSE NewStream
                                    after == c.streams[id]
                                    dispatched == <<"h2o_process_request", id>> \in Events(c, "h2o_process_request")
                                    first == /\ f.t = "DATA" /\ f.id = id /\ ~f.es /\ o.can_stream
                                             /\ before.body = RB.OPEN_BEFORE_FIRST_FRAME
                                    connect == f.t = "HEADERS" /\ f.id = id /\ f.m = "CONNECT" /\ ~Has(conn, id)
                                    used == IF f.t = "DATA" /\ f.id = id THEN f.n ELSE 0
                                    extension == IF after.streamed /\ ~before.streamed
                                                 THEN ActiveStreamWindow - StreamInitialWindow ELSE 0
                                IN /\ after.proceed_req /\ ~before.proceed_req => first \/ connect
                                   /\ first => /\ after.proceed_req
                                               /\ IF dispatched THEN after.streamed
                                                  ELSE /\ ~after.streamed /\ id \in Queued(c)
                                                       /\ \/ ~can_run_requests(conn)
                                                          \/ StreamingLimitReached(conn)
                                                          \/ \E j \in Queued(conn) :
                                                                 <<"h2o_process_request", j>>
                                                                     \in Events(c, "h2o_process_request")
                                   /\ after.streamed /\ ~before.streamed =>
                                          dispatched /\ (after.proceed_req \/ before.proceed_req)
                                   /\ ~before.proceed_req /\ ~before.streamed /\ ~first /\ ~connect =>
                                          /\ ~after.streamed
                                          /\ dispatched => (f.id = id /\ f.es) \/ id \in Queued(conn)
                                   /\ ~after.is_tunnel_req /\ after.body \in {RB.OPEN_BEFORE_FIRST_FRAME, RB.OPEN}
                                        /\ (before.body = RB.OPEN_BEFORE_FIRST_FRAME => after.body = RB.OPEN) =>
                                          after.input_window + after.bytes_unnotified
                                              = before.input_window + before.bytes_unnotified - used
                                                + extension
                                                + (IF f.t = "DATA" /\ f.id = id /\ ~f.es /\ ~first
                                                      /\ before.body = RB.OPEN_BEFORE_FIRST_FRAME
                                                   THEN ActiveStreamWindow - StreamInitialWindow ELSE 0))
    /\ [][client' = client /\ conn'.aborted = "" =>
             \A id \in DOMAIN conn'.streams \cap DOMAIN conn.streams :
                 /\ conn'.streams[id].proceed_req => conn.streams[id].proceed_req
                 /\ conn'.streams[id].streamed /\ ~conn.streams[id].streamed =>
                        /\ conn.streams[id].proceed_req
                        /\ <<"h2o_process_request", id>> \in Events(conn', "h2o_process_request")
                        /\ conn'.streams[id].input_window + conn'.streams[id].bytes_unnotified
                               = conn.streams[id].input_window + conn.streams[id].bytes_unnotified
                                 + ActiveStreamWindow - StreamInitialWindow]_vars

\* a request whose first DATA frame installed proceed_req waits in the pending queue, not yet in
\* the streamed mode and with the default window
C31_Witness ==
    /\ Running
    /\ \E id \in Queued(conn) :
           /\ conn.streams[id].proceed_req /\ ~conn.streams[id].streamed /\ ~conn.streams[id].is_tunnel_req
           /\ conn.streams[id].body = RB.OPEN
           /\ conn.streams[id].input_window + conn.streams[id].bytes_unnotified < StreamInitialWindow

C33_IdleTimeoutAlwaysSendsGoaway ==
    Running =>
        /\ LET u == update_idle_timeout(conn)
           IN /\ u.aborted = ""
              /\ conn.in_flight # 0 => conn.itimer /\ u = conn
              /\ conn.in_flight = 0 =>
                     u = [conn EXCEPT !.itimer = conn.early_data \/ conn.blocked_by_server = 0]
        /\ conn.itimer =>
               LET c == Commit(on_idle_timeout(Begin(NoOracle)))
               IN /\ c.aborted = "" /\ c.state = CS.IS_CLOSING
                  /\ conn.in_flight # 0 => c.destroyed /\ Encoded(c) = {}
                  /\ conn.in_flight = 0 =>
                         /\ Encoded(c) = {OutFrame("GOAWAY", conn.pull_max_open, -ERR.NONE, "idle timeout")}
                         /\ ~c.destroyed => c.wtimer

\* C33, amended: as stated, except that the idle timeout of a connection that is closing already
\* enqueues no GOAWAY; and a run of on_read that ends without a write in flight leaves the
\* timer linked exactly if the socket is in TLS early data or no stream is blocked by the server
C33_IdleTimerArming ==
    /\ Running =>
        /\ LET u == update_idle_timeout(conn)
           IN /\ u.aborted = ""
              /\ conn.in_flight # 0 => conn.itimer /\ u = conn
              /\ conn.in_flight = 0 =>
                     u = [conn EXCEPT !.itimer = conn.early_data \/ conn.blocked_by_server = 0]
        /\ conn.itimer =>
               LET c == Commit(on_idle_timeout(Begin(NoOracle)))
               IN /\ c.aborted = "" /\ c.state = CS.IS_CLOSING
                  /\ conn.in_flight # 0 => c.destroyed /\ Encoded(c) = {}
                  /\ conn.in_flight = 0 =>
                         /\ Encoded(c) = IF conn.state = CS.IS_CLOSING THEN {}
                                         ELSE {OutFrame("GOAWAY", conn.pull_max_open, -ERR.NONE, "idle timeout")}
                         /\ ~c.destroyed => c.wtimer
    /\ AwaitsFrame =>
           \A f \in {InUnit("HEADERS", id, TRUE, TRUE, "GET", SIZE_MAX) : id \in {1, 3}} \cup {Ping} :
               LET c == OnReadFrame(f, NoOracle)
               IN /\ c.aborted = ""
                  /\ ~c.destroyed /\ c.in_flight = 0 =>
                         c.itimer = (c.early_data \/ c.blocked_by_server = 0)

\* the socket is in TLS early data, a request is with the application, and the idle timer is
\* linked although no write is in flight
C33_Witness ==
    /\ Running /\ conn.early_data /\ conn.blocked_by_server > 0
    /\ conn.in_flight = 0 /\ conn.itimer

(* ---- C34 ---- *)
\* C34: is_chromium_dependency_tree is true when the connection is created; while the connection
\* lives, no step makes it true again once it is false; and a PRIORITY frame that reaches
\* set_priority with a priority that is not exclusive, or with a weight greater than the weight
\* of the parent it names, leaves the flag false
C34_ChromiumFlagIsFalsifiedByAHeavierChild ==
    /\ conn.is_chromium_dependency_tree
    /\ [][~conn.is_chromium_dependency_tree /\ ~conn'.destroyed /\ conn'.aborted = ""
             => ~conn'.is_chromium_dependency_tree]_vars
    /\ [](AwaitsFrame =>
            \A id \in {1, 3}, d \in {0, 1, 3}, w \in {h2o_http2_default_priority, 32}, x \in BOOLEAN :
                LET priority == [dependency |-> d, weight |-> w, exclusive |-> x]
                    c == OnReadFrame(InUnit("PRIORITY", id, FALSE, FALSE, "", w) @@ [pri |-> priority], NoOracle)
                    calls_set_priority ==
                        /\ id # d
                        /\ IF Has(conn, id) THEN conn.streams[id].weight # 257
                           ELSE id > conn.pull_max_open /\ conn.ns["priority"].open < MaxStreamsForPriority
                    has_parent == d # 0 /\ d \in DOMAIN conn.node
                IN calls_set_priority /\ c.aborted = "" /\ ~c.destroyed =>
                       /\ (~x \/ ~(d = 0 \/ has_parent)) => ~c.is_chromium_dependency_tree
                       /\ (has_parent /\ w > conn.node[d].weight) => ~c.is_chromium_dependency_tree)

(* ---- C35 ---- *)
\* C35: a GOAWAY frame of the peer, whatever its last-stream-id, is no error and sets
\* push_stream_ids.max_open to 0x7ffffffe; from then on no step opens a push stream or sends a
\* PUSH_PROMISE, and push_path changes nothing whichever request it is called for; a request on a
\* new client stream is still accepted: prepared and dispatched or queued
C35_NoPushAfterThePeersGoaway ==
    /\ [](AwaitsFrame =>
            \A n \in {0, 1} :
                LET c == OnReadFrame(InUnit("GOAWAY", 0, FALSE, FALSE, "", n), NoOracle)
                IN /\ c.aborted = "" /\ c.push_max_open = 2147483646
                   /\ Events(c, "connection_error") = {} /\ \A e \in Encoded(c) : e.t # "GOAWAY"
                   /\ conn.in_flight = 0 /\ ~conn.wtimer => c.state = conn.state /\ ~c.destroyed)
    /\ [][conn.push_max_open = 2147483646 /\ conn'.aborted = "" =>
             /\ conn'.push_max_open = 2147483646
             /\ \A id \in DOMAIN conn'.streams : h2o_http2_stream_is_push(id) => id \in DOMAIN conn.streams
             /\ \A e \in Encoded(conn') : e.t # "PUSH_PROMISE"]_vars
    /\ [](Running /\ conn.push_max_open = 2147483646 =>
            \A src \in DOMAIN conn.streams :
                Commit(push_path(Begin(NoOracle), src)) = Commit(Begin(NoOracle)))
    /\ [](AwaitsFrame /\ conn.push_max_open = 2147483646 /\ conn.state = CS.OPEN /\ conn.pull_max_open < 3 =>
            LET c == OnReadFrame(InUnit("HEADERS", 3, TRUE, TRUE, "GET", SIZE_MAX), NoOracle)
            IN /\ c.aborted = "" /\ c.pull_max_open = 3
               /\ \E e \in Events(c, "prepare") : e[2] = 3
               /\ \/ <<"h2o_process_request", 3>> \in Events(c, "h2o_process_request")
                  \/ 3 \in Queued(c))

\* the peer has sent GOAWAY while the application works on a request from which it could push:
\* no request is pending and the limit of concurrent requests is not reached
C35_Witness ==
    /\ AwaitsFrame /\ conn.push_max_open = 2147483646 /\ conn.state = CS.OPEN
    /\ conn.pending = <<>> /\ can_run_requests(conn) /\ conn.pull_max_open < 3
    /\ \E src \in DOMAIN conn.streams :
           /\ ~h2o_http2_stream_is_push(src)
           /\ conn.streams[src].process_called /\ ~conn.streams[src].sending
           /\ conn.streams[src].state < SS.SEND_BODY_IS_FINAL

(* ---- C36 ---- *)
\* C36: no step moves the state of the connection backwards (OPEN < HALF_CLOSED < IS_CLOSING);
\* enqueue_goaway leaves an IS_CLOSING connection as it is, and makes an OPEN or HALF_CLOSED
\* connection HALF_CLOSED; on an IS_CLOSING connection h2o_http2_conn_request_write changes
\* nothing, and no step encodes a GOAWAY or links the write timer
C36_StateOnlyAdvances ==
    /\ [][conn'.aborted = "" => conn'.state >= conn.state]_vars
    /\ [][conn.state = CS.IS_CLOSING /\ conn'.aborted = "" =>
             /\ \A e \in Encoded(conn') : e.t # "GOAWAY"
             /\ conn'.wtimer => conn.wtimer]_vars
    /\ [](Running =>
            LET c == enqueue_goaway(Begin(NoOracle), ERR.NONE, "")
            IN IF conn.state = CS.IS_CLOSING
               THEN /\ c = Begin(NoOracle)
                    /\ h2o_http2_conn_request_write(Begin(NoOracle)) = Begin(NoOracle)
               ELSE /\ c.state = CS.HALF_CLOSED /\ c.aborted = ""
                    /\ Encoded(c) = {OutFrame("GOAWAY", conn.pull_max_open, 0, "")})

\* the close of the connection is deferred behind the write timer and the idle timer is linked:
\* the idle timeout will call enqueue_goaway on the IS_CLOSING connection
C36_Witness ==
    /\ Running /\ conn.state = CS.IS_CLOSING /\ conn.itimer /\ conn.in_flight = 0

\* C37: stream_send_error and request_gathered_write are never entered on a connection that is
\* IS_CLOSING: their assertions `state < IS_CLOSING` hold on every path, the application's
\* proceed_request during a deferred close with a failing write_req included
C37_NoStreamErrorOnAClosingConnection ==
    conn.aborted \notin {"stream_send_error: state < IS_CLOSING",
                         "request_gathered_write: state < IS_CLOSING"}

C40_OneListPerStream ==
    /\ conn.aborted \notin {"h2o_linklist_insert: !is_linked(node)",
                            "update_stream_output_window: !is_linked(_link)",
                            "register_for_proceed_callback: !is_linked(_link)"}
    /\ Running =>
          LET Members(l) == {l[i] : i \in DOMAIN l}
          IN /\ \A l \in {conn.pending, conn.to_proceed, conn.early} :
                    Members(l) \subseteq DOMAIN conn.streams /\ Cardinality(Members(l)) = Len(l)
             /\ \A id \in DOMAIN conn.streams :
                    /\ (conn.streams[id].link = "pending") = (id \in Members(conn.pending))
                    /\ (conn.streams[id].link = "proceed") = (id \in Members(conn.to_proceed))
                    /\ (conn.streams[id].link \notin {"none", "pending", "proceed"})
                           = (id \in Members(conn.early))
             /\ Members(conn.pending) \cap Members(conn.to_proceed) = {}
             /\ Members(conn.pending) \cap Members(conn.early) = {}
             /\ Members(conn.to_proceed) \cap Members(conn.early) = {}
             /\ \A id \in conn.active : id \in DOMAIN conn.streams /\ conn.streams[id].link = "none"

\* a stream that was answered with 425 waits in the early-data blocked list while another one
\* waits in streams_to_proceed for the end of the write that carries its response
C40_Witness ==
    /\ Running /\ conn.early # <<>> /\ conn.to_proceed # <<>>
====
